---------------------------- MODULE Spec2Model ----------------------------
(***************************************************************************)
(* State-machine model of the event-correlation engine of lttng-analyses:  *)
(* the interrupt correlator (LTTngAnalyzes/irq.py) and the syscall         *)
(* correlator (linuxautomaton/syscalls.py).  Python dictionaries are       *)
(* functions whose domain is the set of keys present; Python objects that  *)
(* are shared by reference (IRQ, FD, Process, IORequest) live in heaps,    *)
(* sequences indexed by object identity.                                   *)
(***************************************************************************)
EXTENDS Integers, Sequences, FiniteSets, TLC

(***************************************************************************)
(* Bounds of the model.                                                    *)
(***************************************************************************)
MaxTs == 2
MaxIrqEvents == 3

CpuIds == {0, 1}
Vecs == {0, 1}
Irqs == {0}
Rets == {0}

(***************************************************************************)
(* Python values.                                                          *)
(***************************************************************************)
None == -1

EmptyDict == <<>>

Put(d, k, v) == (k :> v) @@ d

Has(d, k) == k \in DOMAIN d

HARD_IRQ == 1
SOFT_IRQ == 2

VARIABLES
    clock,      \* cpu_id -> timestamp of the last event read on that CPU
    nev,        \* number of events read from the stream so far
    irq,        \* the dictionary Interrupt.irq
    irqHeap,    \* the IRQ objects, by identity
    args,       \* the command-line filter: args.min, args.max (microseconds)
    softHist,   \* history: cpu_id -> the last soft-IRQ events read on it
    raisedAt,   \* history: cpu_id -> vec -> time of the raise not yet entered
    expRaise,   \* history: per IRQ object, the raise its entry answers, or -1
    lastEv,     \* history: the event read last
    cpus,       \* state.cpus: cpu_id -> current_tid
    tids,       \* state.tids: tid -> the Process object
    procs,      \* the Process objects, by identity
    fdh,        \* the FD objects, by identity
    rqs,        \* the IORequest objects, by identity
    syscalls,   \* state.syscalls: name -> count, and 'total'
    pending_syscalls,   \* state.pending_syscalls: Process objects
    failed,     \* an exception left a handler: the run has ended
    disks,      \* state.disks: dev -> the Disk object
    lastSys,    \* history: tid -> the last syscall event of that thread
    opened,     \* history: tid -> the fds the thread's opens returned
    sysEv,      \* history: the event handed to the syscall provider last
    dumped,     \* history: the process-state records read in a row just now
    arg_end,    \* Command._arg_end: the end-time bound, or None
    stopped,    \* Command._run_analysis has left its loop
    arg_refresh,    \* Command._arg_refresh: the refresh period, in seconds
    arg_begin,  \* Command._arg_begin: the begin-time bound, or None
    started,    \* the local 'started' of _run_analysis
    current_sec,    \* Command.current_sec, as the timestamp it is the
                \* quotient of (0: not set)
    start_ns,   \* Command.start_ns
    taken,      \* history: the timestamps of the events the loop of
                \* _run_analysis has taken from the trace
    calls       \* history: the calls of refresh_cb: begin, end and the
                \* number of events fed before the call

irqVars == <<irq, irqHeap, args, softHist, raisedAt, expRaise>>

sysVars ==
    <<cpus, tids, procs, fdh, rqs, syscalls, pending_syscalls, failed, disks>>

sysHist == <<lastSys, opened, sysEv, dumped>>

loopVars ==
    <<arg_refresh, arg_begin, started, current_sec, start_ns, taken, calls>>

runVars == <<arg_end, stopped, loopVars>>

vars == <<clock, nev, lastEv, irqVars, sysVars, sysHist, runVars>>

(***************************************************************************)
(* class IRQ and Interrupt.__init__ / init_irq                             *)
(***************************************************************************)
NewIRQ == [nr |-> -1, irqclass |-> 0, start_ts |-> -1, stop_ts |-> -1,
           raise_ts |-> -1, cpu_id |-> -1, ret |-> None]

InterruptInit ==
    [hard_count |-> 0, soft_count |-> 0,
     hard_per_cpu |-> EmptyDict, soft_per_cpu |-> EmptyDict,
     raise_per_cpu |-> EmptyDict, names |-> EmptyDict,
     hard_irqs |-> EmptyDict, soft_irqs |-> EmptyDict,
     raise_latency |-> EmptyDict, irq_list |-> <<>>]

init_irq ==
    [list |-> <<>>, max |-> 0, min |-> -1, count |-> 0, total |-> 0,
     raise_max |-> 0, raise_min |-> -1, raise_count |-> 0, raise_total |-> 0]

\* Interrupt.entry: a new IRQ object for the event
entry(cpu_id, ts, irqclass, nr) ==
    [NewIRQ EXCEPT !.irqclass = irqclass, !.start_ts = ts,
                   !.cpu_id = cpu_id, !.nr = nr]

\* the pending raise of a CPU: None, or the tuple (timestamp, vec)
NoRaise == <<>>

\* the raise slot matches the vector of the entry (irq.py:54-56)
RaiseMatches(I, cpu_id, vec) ==
    /\ Has(I.raise_per_cpu, cpu_id)
    /\ I.raise_per_cpu[cpu_id] # NoRaise
    /\ I.raise_per_cpu[cpu_id][2] = vec

\* compute_stats with the raise latency measured to the exit, not the entry
compute_stats_latency_to_exit(irq_entry, i) ==
    LET duration == i.stop_ts - i.start_ts
        e1 == [irq_entry EXCEPT
                 !.max = IF duration > @ THEN duration ELSE @,
                 !.min = IF @ = -1 \/ duration < @ THEN duration ELSE @,
                 !.count = @ + 1,
                 !.total = @ + duration]
        latency == i.stop_ts - i.raise_ts
    IN  IF i.raise_ts = -1 THEN e1
        ELSE [e1 EXCEPT
                 !.raise_max = IF latency > @ THEN latency ELSE @,
                 !.raise_min = IF @ = -1 \/ latency < @ THEN latency ELSE @,
                 !.raise_count = @ + 1,
                 !.raise_total = @ + latency]

\* Interrupt.compute_stats(irq_entry, i)
compute_stats(irq_entry, i) ==
    LET duration == i.stop_ts - i.start_ts
        e1 == [irq_entry EXCEPT
                 !.max = IF duration > @ THEN duration ELSE @,
                 !.min = IF @ = -1 \/ duration < @ THEN duration ELSE @,
                 !.count = @ + 1,
                 !.total = @ + duration]
        latency == i.start_ts - i.raise_ts
    IN  IF i.raise_ts = -1 THEN e1
        ELSE [e1 EXCEPT
                 !.raise_max = IF latency > @ THEN latency ELSE @,
                 !.raise_min = IF @ = -1 \/ latency < @ THEN latency ELSE @,
                 !.raise_count = @ + 1,
                 !.raise_total = @ + latency]

\* the filter of Interrupt.exit: the interval is outside [args.min, args.max]
FilteredOut(a, duration) ==
    \/ a.max # None /\ a.max # 0 /\ duration > a.max * 1000
    \/ a.min # None /\ a.min # 0 /\ duration < a.min * 1000

\* exit that records the interval of a mismatched exit instead of dropping it
exit_records_mismatch(I, H, a, cpu_id, ts, nr, per_cpu_key, irq_type) ==
    IF ~Has(I[per_cpu_key], cpu_id) \/ I[per_cpu_key][cpu_id] = None
    THEN [irq |-> I, heap |-> H, ret |-> None]
    ELSE
      LET id == I[per_cpu_key][cpu_id]
          i == H[id]
          H1 == [H EXCEPT ![id].stop_ts = ts]
          I1 == IF ~Has(I[irq_type], i.nr)
                THEN [I EXCEPT ![irq_type] = Put(@, i.nr, init_irq)]
                ELSE I
          duration == ts - i.start_ts
      IN  IF FilteredOut(a, duration)
          THEN [irq |-> I1, heap |-> H1, ret |-> None]
          ELSE
            LET I2 == [I1 EXCEPT ![irq_type][i.nr].list = Append(@, id)]
                I3 == [I2 EXCEPT ![irq_type][i.nr] = compute_stats(@, H1[id])]
                I4 == [I3 EXCEPT !.irq_list = Append(@, id)]
            IN  [irq |-> I4, heap |-> H1, ret |-> id]

\* Interrupt.exit: the new irq dictionary and heap, and the returned value
\* (the identity of the IRQ object, or None for None/False)
exit(I, H, a, cpu_id, ts, nr, per_cpu_key, irq_type) ==
    IF ~Has(I[per_cpu_key], cpu_id) \/ I[per_cpu_key][cpu_id] = None
    THEN [irq |-> I, heap |-> H, ret |-> None]
    ELSE
      LET id == I[per_cpu_key][cpu_id]
          i == H[id]
      IN  IF i.nr # nr
          THEN [irq |-> [I EXCEPT ![per_cpu_key] = Put(@, cpu_id, None)],
                heap |-> H, ret |-> None]
          ELSE
            LET H1 == [H EXCEPT ![id].stop_ts = ts]
                I1 == IF ~Has(I[irq_type], i.nr)
                      THEN [I EXCEPT ![irq_type] = Put(@, i.nr, init_irq)]
                      ELSE I
                duration == ts - i.start_ts
            IN  IF FilteredOut(a, duration)
                THEN [irq |-> I1, heap |-> H1, ret |-> None]
                ELSE
                  LET I2 == [I1 EXCEPT ![irq_type][i.nr].list = Append(@, id)]
                      I3 == [I2 EXCEPT ![irq_type][i.nr] =
                                           compute_stats(@, H1[id])]
                      I4 == [I3 EXCEPT !.irq_list = Append(@, id)]
                  IN  [irq |-> I4, heap |-> H1, ret |-> id]

\* the name the kernel gives an interrupt line (event["name"])
IrqName(n) == IF n = 0 THEN "timer" ELSE "eth0"

\* history helpers
Last3(s) == IF Len(s) > 3 THEN SubSeq(s, Len(s) - 2, Len(s)) ELSE s

SoftEv(kind, vec, ts) == [kind |-> kind, vec |-> vec, ts |-> ts]

Without(d, k) == [x \in (DOMAIN d) \ {k} |-> d[x]]

(***************************************************************************)
(* The trace reader: the next event of CPU c carries a timestamp that is   *)
(* not smaller than the previous one of that CPU.                          *)
(***************************************************************************)
NsPerUs == 1000

Times == {k * NsPerUs : k \in 0..MaxTs}

ReadEvent(kind, c, nr, ts) ==
    /\ nev < MaxIrqEvents
    /\ ts \in {clock[c], clock[c] + NsPerUs}
    /\ clock' = [clock EXCEPT ![c] = ts]
    /\ nev' = nev + 1
    /\ lastEv' = [kind |-> kind, cpu_id |-> c, nr |-> nr, ts |-> ts]
    /\ UNCHANGED <<sysVars, sysHist, runVars>>

(***************************************************************************)
(* The interrupt handlers                                                  *)
(***************************************************************************)
\* hard_entry that uses up the pending raise of the CPU, as soft_entry does
HardEntry_takes_raise(c, n, ts) ==
    /\ ReadEvent("hard_entry", c, n, ts)
    /\ irqHeap' = Append(irqHeap, entry(c, ts, HARD_IRQ, n))
    /\ irq' = [irq EXCEPT !.names = Put(@, n, IrqName(n)),
                          !.hard_count = @ + 1,
                          !.hard_per_cpu = Put(@, c, Len(irqHeap) + 1),
                          !.raise_per_cpu = IF Has(@, c)
                                            THEN Put(@, c, NoRaise) ELSE @]
    /\ expRaise' = Append(expRaise, -1)
    /\ UNCHANGED <<args, softHist, raisedAt>>

\* Interrupt.hard_entry
HardEntry(c, n, ts) ==
    /\ ReadEvent("hard_entry", c, n, ts)
    /\ irqHeap' = Append(irqHeap, entry(c, ts, HARD_IRQ, n))
    /\ irq' = [irq EXCEPT !.names = Put(@, n, IrqName(n)),
                          !.hard_count = @ + 1,
                          !.hard_per_cpu = Put(@, c, Len(irqHeap) + 1)]
    /\ expRaise' = Append(expRaise, -1)
    /\ UNCHANGED <<args, softHist, raisedAt>>

\* Interrupt.soft_entry
SoftEntry(c, v, ts) ==
    /\ ReadEvent("soft_entry", c, v, ts)
    /\ LET id == Len(irqHeap) + 1
           i == entry(c, ts, SOFT_IRQ, v)
           I1 == [irq EXCEPT !.soft_count = @ + 1,
                             !.soft_per_cpu = Put(@, c, id)]
       IN  IF RaiseMatches(I1, c, v)
           THEN /\ irqHeap' = Append(irqHeap,
                       [i EXCEPT !.raise_ts = I1.raise_per_cpu[c][1]])
                /\ irq' = [I1 EXCEPT !.raise_per_cpu = Put(@, c, NoRaise)]
           ELSE /\ irqHeap' = Append(irqHeap, i)
                /\ irq' = I1
    /\ expRaise' = Append(expRaise,
                     IF Has(raisedAt[c], v) THEN raisedAt[c][v] ELSE -1)
    /\ raisedAt' = [raisedAt EXCEPT ![c] = Without(@, v)]
    /\ softHist' = [softHist EXCEPT
                      ![c] = Last3(Append(@, SoftEv("entry", v, ts)))]
    /\ UNCHANGED args

\* Interrupt.hard_exit
HardExit(c, n, r, ts) ==
    /\ ReadEvent("hard_exit", c, n, ts)
    /\ LET x == exit(irq, irqHeap, args, c, ts, n, "hard_per_cpu", "hard_irqs")
       IN  /\ irq' = x.irq
           /\ irqHeap' = IF x.ret = None THEN x.heap
                         ELSE [x.heap EXCEPT ![x.ret].ret = r]
    /\ UNCHANGED <<args, softHist, raisedAt, expRaise>>

\* Interrupt.soft_exit
SoftExit(c, v, ts) ==
    /\ ReadEvent("soft_exit", c, v, ts)
    /\ LET x == exit(irq, irqHeap, args, c, ts, v, "soft_per_cpu", "soft_irqs")
       IN  /\ irq' = x.irq
           /\ irqHeap' = x.heap
    /\ softHist' = [softHist EXCEPT
                      ![c] = Last3(Append(@, SoftEv("exit", v, ts)))]
    /\ UNCHANGED <<args, raisedAt, expRaise>>

\* Interrupt.soft_raise
SoftRaise(c, v, ts) ==
    /\ ReadEvent("soft_raise", c, v, ts)
    /\ irq' = [irq EXCEPT !.raise_per_cpu = Put(@, c, <<ts, v>>)]
    /\ raisedAt' = [raisedAt EXCEPT ![c] = Put(@, v, ts)]
    /\ softHist' = [softHist EXCEPT
                      ![c] = Last3(Append(@, SoftEv("raise", v, ts)))]
    /\ UNCHANGED <<args, irqHeap, expRaise>>

NoFilter == [min |-> None, max |-> None]

InitIrq ==
    /\ clock = [c \in CpuIds |-> 0]
    /\ nev = 0
    /\ irq = InterruptInit
    /\ irqHeap = <<>>
    /\ args = NoFilter
    /\ softHist = [c \in CpuIds |-> <<>>]
    /\ raisedAt = [c \in CpuIds |-> EmptyDict]
    /\ expRaise = <<>>
    /\ lastEv = [kind |-> "none", cpu_id |-> 0, nr |-> 0, ts |-> 0]

NextIrq ==
    \E c \in CpuIds, ts \in Times :
        \/ \E n \in Irqs : HardEntry(c, n, ts)
        \/ \E n \in Irqs, r \in Rets : HardExit(c, n, r, ts)
        \/ \E v \in Vecs : SoftRaise(c, v, ts)
        \/ \E v \in Vecs : SoftEntry(c, v, ts)
        \/ \E v \in Vecs : SoftExit(c, v, ts)

(***************************************************************************)
(* The syscall correlator: linuxautomaton/syscalls.py.  The classes of     *)
(* linuxautomaton/sv.py are those of the older LTTngAnalyzes/common.py.    *)
(***************************************************************************)
AF_UNSPEC == 0
AF_UNIX == 1
AF_INET == 2
AF_INET6 == 10

\* class FDType
FDType_unknown == 0
FDType_disk == 1
FDType_net == 2
FDType_maybe_net == 3

\* class IORequest
IO_SYSCALL == 1
OP_OPEN == 1
OP_READ == 2
OP_WRITE == 3
OP_CLOSE == 4
OP_SYNC == 5

\* class SyscallConsts
INET_FAMILIES == {AF_INET, AF_INET6}
DISK_FAMILIES == {AF_UNIX}
DISK_OPEN_SYSCALLS == {"sys_open", "syscall_entry_open",
                       "sys_openat", "syscall_entry_openat"}
NET_OPEN_SYSCALLS == {"sys_accept", "syscall_entry_accept",
                      "sys_socket", "syscall_entry_socket"}
DUP_OPEN_SYSCALLS == {"sys_fcntl", "syscall_entry_fcntl",
                      "sys_dup2", "syscall_entry_dup2"}
SYNC_SYSCALLS == {"sys_sync", "syscall_entry_sync",
                  "sys_sync_file_range", "syscall_entry_sync_file_range",
                  "sys_fsync", "syscall_entry_fsync",
                  "sys_fdatasync", "syscall_entry_fdatasync"}
OPEN_SYSCALLS ==
    DISK_OPEN_SYSCALLS \cup NET_OPEN_SYSCALLS \cup DUP_OPEN_SYSCALLS
CLOSE_SYSCALLS == {"sys_close", "syscall_entry_close"}
READ_SYSCALLS == {"sys_read", "syscall_entry_read",
                  "sys_recvmsg", "syscall_entry_recvmsg",
                  "sys_recvfrom", "syscall_entry_recvfrom",
                  "sys_splice", "syscall_entry_splice",
                  "sys_readv", "syscall_entry_readv",
                  "sys_sendfile64", "syscall_entry_sendfile64"}
WRITE_SYSCALLS == {"sys_write", "syscall_entry_write",
                   "sys_sendmsg", "syscall_entry_sendmsg",
                   "sys_sendto", "syscall_entry_sendto",
                   "sys_writev", "syscall_entry_writev"}
GENERIC_NAMES == {"unknown", "socket"}
\* the catalog of I/O syscalls tested by _process_syscall_exit
IO_SYSCALLS ==
    OPEN_SYSCALLS \cup CLOSE_SYSCALLS \cup READ_SYSCALLS
        \cup WRITE_SYSCALLS \cup SYNC_SYSCALLS

SPLICE_NAMES == {"sys_splice", "syscall_entry_splice"}
SENDFILE_NAMES == {"sys_sendfile64", "syscall_entry_sendfile64"}
ACCEPT_NAMES == {"sys_accept", "syscall_entry_accept",
                 "sys_accept4", "syscall_entry_accept4"}
DUP2_NAMES == {"sys_dup2", "syscall_entry_dup2"}
FCNTL_NAMES == {"sys_fcntl", "syscall_entry_fcntl"}
CONNECT_NAMES == {"sys_connect", "syscall_entry_connect"}
SYNC_NAMES == {"sys_sync", "syscall_entry_sync"}

\* class Process
NewProcess ==
    [tid |-> None, pid |-> None, comm |-> "",
     fds |-> EmptyDict, closed_fds |-> EmptyDict, chrono_fds |-> EmptyDict,
     current_syscall |-> EmptyDict,
     net_read |-> 0, net_write |-> 0, disk_read |-> 0, disk_write |-> 0,
     unk_read |-> 0, unk_write |-> 0, read |-> 0, write |-> 0,
     prev_tid |-> -1, syscalls |-> EmptyDict, total_syscalls |-> 0,
     iorequests |-> <<>>]

\* class FD
NewFD ==
    [filename |-> "", fd |-> -1, family |-> AF_UNSPEC,
     fdtype |-> FDType_unknown,
     net_read |-> 0, net_write |-> 0, disk_read |-> 0, disk_write |-> 0,
     unk_read |-> 0, unk_write |-> 0, read |-> 0, write |-> 0,
     open |-> 0, close |-> 0, cloexec |-> 0, iorequests |-> <<>>]

\* class IORequest
NewIORequest ==
    [iotype |-> None, size |-> None, duration |-> None, operation |-> None,
     name |-> "", begin |-> None, end |-> None, proc |-> None, fd |-> None,
     dirty |-> 0, page_alloc |-> 0, page_free |-> 0, page_written |-> 0,
     woke_kswapd |-> FALSE, page_cleared |-> 0]

\* class Syscall: the per-thread record of one syscall name
NewSyscall(name) ==
    [name |-> name, count |-> 0, min |-> None, max |-> 0,
     total_duration |-> 0, rq |-> <<>>]

\* class SyscallEvent: one completed syscall of a thread
NewSyscallEvent(ret, entry_ts, exit_ts) ==
    [ret |-> ret, entry_ts |-> entry_ts, exit_ts |-> exit_ts,
     duration |-> exit_ts - entry_ts]

(***************************************************************************)
(* The state the providers share, S: cpus (cpu_id -> current_tid), tids    *)
(* (tid -> Process object), the heaps procs, fdh and rqs of the Process,   *)
(* FD and IORequest objects, the global tally syscalls, the list           *)
(* pending_syscalls, and failed: an exception left a handler.              *)
(***************************************************************************)
Fail(S) == [S EXCEPT !.failed = TRUE]

\* the Process object stored for the thread running on the CPU
CurProc(S, cpu_id) == S.tids[S.cpus[cpu_id]]

\* "we don't know which process is currently on this CPU"
UnknownCpu(S, cpu_id) == ~Has(S.cpus, cpu_id) \/ S.cpus[cpu_id] = None

\* "if it's a thread, we want the parent": the key of self.tids looked up
ParentKey(t) == IF t.pid # None /\ t.tid # t.pid THEN t.pid ELSE t.tid

\* Process.track_chrono_fd
track_chrono_fd(S, p, fd, filename, fdtype, ts) ==
    LET meta == [filename |-> filename, fdtype |-> fdtype]
        old == IF Has(S.procs[p].chrono_fds, fd)
               THEN S.procs[p].chrono_fds[fd] ELSE EmptyDict
    IN  [S EXCEPT !.procs[p].chrono_fds = Put(@, fd, Put(old, ts, meta))]

\* SyscallsStateProvider.get_fd_type
get_fd_type(name, family) ==
    IF name \in NET_OPEN_SYSCALLS /\ family \in INET_FAMILIES
    THEN FDType_net
    ELSE IF name \in NET_OPEN_SYSCALLS /\ family \in DISK_FAMILIES
    THEN FDType_disk
    ELSE IF name \in DISK_OPEN_SYSCALLS THEN FDType_disk
    ELSE FDType_unknown

\* SyscallsStateProvider.global_syscall_entry
global_syscall_entry(S, name) ==
    LET n == IF Has(S.syscalls, name) THEN S.syscalls[name] ELSE 0
    IN  [S EXCEPT !.syscalls =
            Put(Put(@, name, n + 1), "total", S.syscalls["total"] + 1)]

\* SyscallsStateProvider.override_name
override_name(name, ev) ==
    IF name = "syscall_entry_epoll_ctl"
    THEN IF ev.op = 1 THEN "syscall_entry_epoll_ctl-ADD"
         ELSE IF ev.op = 2 THEN "syscall_entry_epoll_ctl-DEL"
         ELSE IF ev.op = 3 THEN "syscall_entry_epoll_ctl-MODE"
         ELSE name
    ELSE name

\* per_tid_syscall_entry that tallies the syscall before it looks for the
\* thread of the CPU
per_tid_syscall_entry_tallies_first(S, name, cpu_id, ev) ==
    IF UnknownCpu(S, cpu_id)
    THEN global_syscall_entry(S, override_name(name, ev))
    ELSE IF ~Has(S.tids, S.cpus[cpu_id]) THEN Fail(S)
    ELSE
      LET p == CurProc(S, cpu_id)
          t == S.procs[p]
          nm == override_name(name, ev)
          s == IF Has(t.syscalls, nm) THEN t.syscalls[nm] ELSE NewSyscall(nm)
          S1 == [S EXCEPT
                   !.procs[p].total_syscalls = @ + 1,
                   !.procs[p].syscalls = Put(@, nm, [s EXCEPT !.count = @ + 1]),
                   !.procs[p].current_syscall =
                       Put(Put(@, "name", nm), "start", ev.timestamp)]
      IN  global_syscall_entry(S1, nm)

\* SyscallsStateProvider.per_tid_syscall_entry
per_tid_syscall_entry(S, name, cpu_id, ev) ==
    IF UnknownCpu(S, cpu_id) THEN S
    ELSE IF ~Has(S.tids, S.cpus[cpu_id]) THEN Fail(S)
    ELSE
      LET p == CurProc(S, cpu_id)
          t == S.procs[p]
          nm == override_name(name, ev)
          s == IF Has(t.syscalls, nm) THEN t.syscalls[nm] ELSE NewSyscall(nm)
          S1 == [S EXCEPT
                   !.procs[p].total_syscalls = @ + 1,
                   !.procs[p].syscalls = Put(@, nm, [s EXCEPT !.count = @ + 1]),
                   !.procs[p].current_syscall =
                       Put(Put(@, "name", nm), "start", ev.timestamp)]
      IN  global_syscall_entry(S1, nm)

\* SyscallsStateProvider.close_fd
close_fd(S, p, fd) ==
    LET proc == S.procs[p]
        x == proc.fds[fd]
        filename == S.fdh[x].filename
    IN  IF filename \notin GENERIC_NAMES /\ Has(proc.closed_fds, filename)
        THEN LET f == proc.closed_fds[filename]
             IN  [S EXCEPT
                    !.fdh[f].close = @ + 1,
                    !.fdh[f].net_read = @ + S.fdh[x].net_read,
                    !.fdh[f].disk_read = @ + S.fdh[x].disk_read,
                    !.fdh[f].net_write = @ + S.fdh[x].net_write,
                    !.fdh[f].disk_write = @ + S.fdh[x].disk_write,
                    !.procs[p].fds = Without(@, fd)]
        ELSE [S EXCEPT
                !.procs[p].closed_fds = Put(@, filename, x),
                !.fdh[x].close = 1,
                !.procs[p].fds = Without(@, fd)]

\* SyscallsStateProvider.get_fd: the new state and the FD object returned
get_fd(S, p, fd, ts) ==
    LET proc == S.procs[p]
        isNew == ~Has(proc.fds, fd)
        f == IF isNew THEN Len(S.fdh) + 1 ELSE proc.fds[fd]
        S1 == IF isNew
              THEN [S EXCEPT
                      !.fdh = Append(@, [NewFD EXCEPT
                                 !.fd = fd,
                                 !.filename = "unknown (origin not found)"]),
                      !.procs[p].fds = Put(@, fd, f)]
              ELSE S
    IN  [S |-> track_chrono_fd(S1, p, fd, S1.fdh[f].filename,
                               S1.fdh[f].fdtype, ts),
         f |-> f]

\* common.get_v4_addr_str and the '%s:%d' of track_open / track_fds
AddrStr(a) == "10.0.0." \o ToString(a)

IpPort(a, port) == AddrStr(a) \o ":" \o ToString(port)

\* SyscallsStateProvider._fix_context_pid: ev.ctxpid is the 'pid' of the
\* stream event context (None: no such context, or the payload has a pid)
fix_context_pid(S, ev, p) ==
    IF ev.ctxpid = None THEN S
    ELSE IF S.procs[p].pid # None THEN S
    ELSE IF ev.ctxpid = S.procs[p].tid THEN S
    ELSE [S EXCEPT
            !.procs = Append([@ EXCEPT ![p].pid = ev.ctxpid],
                             [NewProcess EXCEPT !.tid = ev.ctxpid,
                                                !.pid = ev.ctxpid,
                                                !.comm = S.procs[p].comm]),
            !.tids = Put(@, ev.ctxpid, Len(S.procs) + 1)]

\* SyscallsStateProvider.track_open
track_open(S, name, q, ev, cpu_id) ==
    LET th == CurProc(S, cpu_id)
        S1 == IF name \in DUP2_NAMES /\ Has(S.procs[q].fds, ev.fd2)
              THEN close_fd(S, q, ev.fd2) ELSE S
        fds == S1.procs[q].fds
        cs1 == IF name \in DISK_OPEN_SYSCALLS
               THEN IF ev.cloexec
                    THEN Put(Put(EmptyDict, "filename", ev.filename),
                             "cloexec", 1)
                    ELSE Put(EmptyDict, "filename", ev.filename)
               ELSE IF name \in ACCEPT_NAMES
               THEN Put(EmptyDict, "filename",
                        IF ev.family = AF_INET
                        THEN IpPort(ev.addr, ev.port) ELSE "socket")
               ELSE IF name \in NET_OPEN_SYSCALLS
               THEN Put(EmptyDict, "filename", "socket")
               ELSE IF name \in DUP2_NAMES \cup FCNTL_NAMES
               THEN IF Has(fds, ev.fd)
                    THEN Put(Put(EmptyDict, "filename",
                                 S1.fdh[fds[ev.fd]].filename),
                             "fdtype", S1.fdh[fds[ev.fd]].fdtype)
                    ELSE Put(EmptyDict, "filename", "")
               ELSE EmptyDict
        family == IF name \in NET_OPEN_SYSCALLS /\ ev.family # None
                  THEN ev.family ELSE AF_UNSPEC
        cs2 == Put(Put(Put(Put(cs1, "family", family), "name", name),
                       "start", ev.timestamp),
                   "fdtype", get_fd_type(name, family))
    IN  IF name \in FCNTL_NAMES /\ ev.cmd # 0
        THEN [S EXCEPT !.procs[th].current_syscall = EmptyDict]
        ELSE [S1 EXCEPT !.procs[th].current_syscall = cs2]

\* SyscallsStateProvider.track_close
track_close(S, name, q, ev, cpu_id) ==
    IF ~Has(S.procs[q].fds, ev.fd) THEN S
    ELSE
      LET th == CurProc(S, cpu_id)
          cs == Put(Put(Put(EmptyDict, "filename",
                            S.fdh[S.procs[q].fds[ev.fd]].filename),
                        "name", name), "start", ev.timestamp)
      IN  close_fd([S EXCEPT !.procs[th].current_syscall = cs], q, ev.fd)

\* SyscallsStateProvider.track_fds
track_fds(S, name, ev, cpu_id) ==
    IF S.failed \/ UnknownCpu(S, cpu_id) THEN S
    ELSE IF ~Has(S.tids, S.cpus[cpu_id]) THEN Fail(S)
    ELSE
      LET p == CurProc(S, cpu_id)
          S1 == fix_context_pid(S, ev, p)
          t == S1.procs[p]
          isThread == t.pid # None /\ t.tid # t.pid
      IN  IF isThread /\ ~Has(S1.tids, t.pid) THEN Fail(S1)
          ELSE
            LET q == IF isThread THEN S1.tids[t.pid] ELSE p
            IN  IF name \in OPEN_SYSCALLS
                THEN track_open(S1, name, q, ev, cpu_id)
                ELSE IF name \in CLOSE_SYSCALLS
                THEN track_close(S1, name, q, ev, cpu_id)
                ELSE IF name \in CONNECT_NAMES /\ ev.family = AF_INET
                THEN LET g == get_fd(S1, q, ev.fd, ev.timestamp)
                     IN  [g.S EXCEPT !.fdh[g.f].filename =
                                         IpPort(ev.addr, ev.port)]
                ELSE S1

\* the lines shared by track_sync and track_read_write: the thread is
\* appended to pending_syscalls and its record gets the name and the start
track_begin(S, name, ev, cpu_id) ==
    LET p == CurProc(S, cpu_id)
    IN  [S EXCEPT
           !.pending_syscalls = Append(@, p),
           !.procs[p].current_syscall =
               Put(Put(@, "name", name), "start", ev.timestamp)]

\* current_syscall[key] = self.get_fd(t, fd, event)
cs_get_fd(S, th, q, key, fd, ts) ==
    LET g == get_fd(S, q, fd, ts)
    IN  [g.S EXCEPT !.procs[th].current_syscall = Put(@, key, g.f)]

\* current_syscall['filename'] = current_syscall[key].filename
cs_filename(S, th, key) ==
    [S EXCEPT !.procs[th].current_syscall =
        Put(@, "filename", S.fdh[@[key]].filename)]

\* SyscallsStateProvider.track_sync
track_sync(S, name, ev, cpu_id) ==
    IF S.failed \/ UnknownCpu(S, cpu_id) THEN S
    ELSE IF ~Has(S.tids, S.cpus[cpu_id]) THEN Fail(S)
    ELSE
      LET th == CurProc(S, cpu_id)
          t == S.procs[th]
          isThread == t.pid # None /\ t.tid # t.pid
          S1 == [S EXCEPT !.pending_syscalls = Append(@, th)]
      IN  IF isThread /\ ~Has(S.tids, t.pid) THEN Fail(S1)
          ELSE
            LET q == IF isThread THEN S.tids[t.pid] ELSE th
                S2 == track_begin(S, name, ev, cpu_id)
            IN  IF name \in SYNC_NAMES THEN S2
                ELSE cs_filename(
                       cs_get_fd(S2, th, q, "fd", ev.fd, ev.timestamp),
                       th, "fd")

\* the count argument of a read or write syscall, by name
rw_count(name, ev) ==
    IF name \in {"sys_recvmsg", "syscall_entry_recvmsg",
                 "sys_sendmsg", "syscall_entry_sendmsg"}
    THEN ""
    ELSE IF ev.count = None THEN 0 ELSE ev.count

\* SyscallsStateProvider.track_read_write
track_read_write(S, name, ev, cpu_id) ==
    IF S.failed \/ UnknownCpu(S, cpu_id) THEN S
    ELSE IF ~Has(S.tids, S.cpus[cpu_id]) THEN Fail(S)
    ELSE
      LET th == CurProc(S, cpu_id)
          t == S.procs[th]
          isThread == t.pid # None /\ t.tid # t.pid
          S1 == [S EXCEPT !.pending_syscalls = Append(@, th)]
      IN  IF isThread /\ ~Has(S.tids, t.pid) THEN Fail(S1)
          ELSE
            LET q == IF isThread THEN S.tids[t.pid] ELSE th
                S2 == track_begin(S, name, ev, cpu_id)
            IN  IF name \in SPLICE_NAMES \cup SENDFILE_NAMES
                THEN
                  LET S3 == cs_get_fd(S2, th, q, "fd_in", ev.fd, ev.timestamp)
                      S4 == cs_get_fd(S3, th, q, "fd_out", ev.fd2,
                                      ev.timestamp)
                      S5 == [S4 EXCEPT !.procs[th].current_syscall =
                                           Put(@, "count", ev.count)]
                  IN  cs_filename(S5, th, "fd_in")
                ELSE
                  LET S3 == cs_get_fd(S2, th, q, "fd", ev.fd, ev.timestamp)
                      S4 == [S3 EXCEPT !.procs[th].current_syscall =
                                           Put(@, "count", rw_count(name, ev))]
                  IN  cs_filename(S4, th, "fd")

\* SyscallsStateProvider._process_syscall_entry
process_syscall_entry(S, ev) ==
    LET name == ev.name
        cpu_id == ev.cpu_id
        S1 == per_tid_syscall_entry(S, name, cpu_id, ev)
        S2 == track_fds(S1, name, ev, cpu_id)
        S3 == IF name \in READ_SYSCALLS \cup WRITE_SYSCALLS
              THEN track_read_write(S2, name, ev, cpu_id) ELSE S2
    IN  IF name \in SYNC_SYSCALLS
        THEN track_sync(S3, name, ev, cpu_id) ELSE S3

\* SyscallsStateProvider.add_tid_fd
add_tid_fd(S, ev, cpu_id) ==
    LET th == CurProc(S, cpu_id)
        t == S.procs[th]
        isThread == t.pid # None /\ t.tid # t.pid
        cs == t.current_syscall
    IN  IF isThread /\ ~Has(S.tids, t.pid) THEN Fail(S)
        ELSE IF ~Has(cs, "filename") THEN Fail(S)
        ELSE
          LET q == IF isThread THEN S.tids[t.pid] ELSE th
              name == cs["filename"]
              reuse == name \notin GENERIC_NAMES
                          /\ Has(S.procs[q].closed_fds, name)
              f == IF reuse THEN S.procs[q].closed_fds[name]
                   ELSE Len(S.fdh) + 1
              isNet == cs["name"] \in NET_OPEN_SYSCALLS
              fresh == [NewFD EXCEPT
                          !.filename = name,
                          !.family = IF isNet THEN cs["family"] ELSE @,
                          !.fdtype = IF isNet /\ cs["family"] \in INET_FAMILIES
                                     THEN FDType_net ELSE @,
                          !.open = 1]
              S1 == IF reuse THEN [S EXCEPT !.fdh[f].open = @ + 1]
                    ELSE [S EXCEPT !.fdh = Append(@, fresh)]
              S2 == [S1 EXCEPT
                       !.fdh[f].fd = ev.ret,
                       !.fdh[f].cloexec = IF Has(cs, "cloexec") THEN 1 ELSE @,
                       !.procs[q].fds = Put(@, ev.ret, f)]
          IN  IF ev.ret >= 0
              THEN track_chrono_fd(S2, q, ev.ret, S2.fdh[f].filename,
                                   S2.fdh[f].fdtype, ev.timestamp)
              ELSE IF reuse THEN S1 ELSE S

\* the counters of an FD or a Process that read_append adds count to
read_add_size(o, fdtype, count) ==
    IF fdtype \in {FDType_net, FDType_maybe_net}
    THEN [o EXCEPT !.net_read = @ + count, !.read = @ + count]
    ELSE IF fdtype = FDType_disk
    THEN [o EXCEPT !.disk_read = @ + count, !.read = @ + count]
    ELSE [o EXCEPT !.unk_read = @ + count, !.read = @ + count]

\* SyscallsStateProvider.read_append
read_append(S, fd, proc, count, rq) ==
    LET fdtype == S.fdh[fd].fdtype
    IN  [S EXCEPT
           !.rqs[rq].operation = OP_READ,
           !.rqs[rq].size = count,
           !.fdh[fd] = read_add_size(@, fdtype, count),
           !.procs[proc] = read_add_size(@, fdtype, count)]

\* the counters of an FD or a Process that write_append adds count to
write_add_size(o, fdtype, count) ==
    IF fdtype \in {FDType_net, FDType_maybe_net}
    THEN [o EXCEPT !.net_write = @ + count, !.write = @ + count]
    ELSE IF fdtype = FDType_disk
    THEN [o EXCEPT !.disk_write = @ + count, !.write = @ + count]
    ELSE [o EXCEPT !.unk_write = @ + count, !.write = @ + count]

\* SyscallsStateProvider.write_append
write_append(S, fd, proc, count, rq) ==
    LET fdtype == S.fdh[fd].fdtype
    IN  [S EXCEPT
           !.rqs[rq].operation = OP_WRITE,
           !.rqs[rq].size = count,
           !.fdh[fd] = write_add_size(@, fdtype, count),
           !.procs[proc] = write_add_size(@, fdtype, count)]

\* SyscallsStateProvider.track_read_write_return
track_read_write_return(S, name, ret, cpu_id) ==
    IF ret < 0 THEN S
    ELSE
      LET th == CurProc(S, cpu_id)
          t == S.procs[th]
          isThread == t.pid # None /\ t.tid # t.pid
          cs == t.current_syscall
      IN  IF isThread /\ ~Has(S.tids, t.pid) THEN Fail(S)
          ELSE
            LET proc == IF isThread THEN S.tids[t.pid] ELSE th
            IN  IF name \in SPLICE_NAMES \cup SENDFILE_NAMES
                THEN IF ~Has(cs, "fd_in") \/ ~Has(cs, "fd_out")
                     THEN Fail(S)
                     ELSE write_append(
                            read_append(S, cs["fd_in"], proc, ret,
                                        cs["iorequest"]),
                            cs["fd_out"], proc, ret, cs["iorequest"])
                ELSE IF name \in READ_SYSCALLS
                THEN IF ret > 0
                     THEN IF ~Has(cs, "fd") THEN Fail(S)
                          ELSE read_append(S, cs["fd"], proc, ret,
                                           cs["iorequest"])
                     ELSE S
                ELSE IF name \in WRITE_SYSCALLS
                THEN IF ret > 0
                     THEN IF ~Has(cs, "fd") THEN Fail(S)
                          ELSE write_append(S, cs["fd"], proc, ret,
                                            cs["iorequest"])
                     ELSE S
                ELSE S

\* SyscallsStateProvider.track_rw_latency
track_rw_latency(S, name, ret, cpu_id, ts) ==
    IF S.failed THEN S
    ELSE
      LET th == CurProc(S, cpu_id)
          cs == S.procs[th].current_syscall
          r == cs["iorequest"]
          rq0 == S.rqs[r]
          rq1 == [rq0 EXCEPT
                    !.duration = ts - cs["start"],
                    !.begin = cs["start"],
                    !.end = ts,
                    !.proc = th,
                    !.fd = IF Has(cs, "fd") THEN cs["fd"]
                           ELSE IF Has(cs, "fd_in") THEN cs["fd_in"] ELSE @,
                    !.page_written = IF Has(cs, "pages_written")
                                     THEN cs["pages_written"] ELSE @,
                    !.dirty = IF Has(cs, "dirty") THEN cs["dirty"] ELSE @,
                    !.page_alloc = IF Has(cs, "pages_allocated")
                                   THEN cs["pages_allocated"] ELSE @,
                    !.page_free = IF Has(cs, "page_free")
                                  THEN cs["page_free"] ELSE @,
                    !.woke_kswapd = IF Has(cs, "wakeup_kswapd")
                                    THEN TRUE ELSE @,
                    !.page_cleared =
                        IF name \in SYNC_SYSCALLS /\ Has(cs, "pages_cleared")
                        THEN Len(cs["pages_cleared"]) ELSE @]
          S1 == [S EXCEPT !.rqs[r] = rq1]
      IN  IF Has(cs, "fd")
          THEN [S1 EXCEPT !.fdh[cs["fd"]].iorequests = Append(@, r)]
          ELSE S1

\* SyscallsStateProvider._per_tid_syscall_exit
per_tid_syscall_exit(S, name, ret, ts, cpu_id) ==
    LET th == CurProc(S, cpu_id)
        t == S.procs[th]
    IN  IF ~Has(t.syscalls, name) THEN S
        ELSE IF ~Has(t.current_syscall, "start") THEN Fail(S)
        ELSE
          LET s == NewSyscallEvent(ret, t.current_syscall["start"], ts)
              t_syscall == t.syscalls[name]
              upd == [t_syscall EXCEPT
                        !.min = IF @ = None \/ @ > s.duration
                                THEN s.duration ELSE @,
                        !.max = IF @ < s.duration THEN s.duration ELSE @,
                        !.total_duration = @ + s.duration,
                        !.rq = Append(@, s)]
          IN  [S EXCEPT !.procs[th].syscalls = Put(@, name, upd)]

\* list.remove: the first occurrence of x leaves the list, if there is one
RECURSIVE Remove(_, _)
Remove(l, x) ==
    IF l = <<>> THEN <<>>
    ELSE IF Head(l) = x THEN Tail(l)
    ELSE <<Head(l)>> \o Remove(Tail(l), x)

\* lines 502-504 of _process_syscall_exit: the record is reset and the
\* thread leaves pending_syscalls
syscall_exit_reset(S, cpu_id) ==
    IF S.failed THEN S
    ELSE
      LET th == CurProc(S, cpu_id)
      IN  [S EXCEPT !.procs[th].current_syscall = EmptyDict,
                    !.pending_syscalls = Remove(@, th)]

\* SyscallsStateProvider._process_syscall_exit
process_syscall_exit(S, ev) ==
    LET cpu_id == ev.cpu_id
    IN
    IF UnknownCpu(S, cpu_id) THEN S
    ELSE IF ~Has(S.tids, S.cpus[cpu_id]) THEN Fail(S)
    ELSE
      LET th == CurProc(S, cpu_id)
          current_syscall == S.procs[th].current_syscall
      IN
      IF current_syscall = EmptyDict THEN S
      ELSE IF ~Has(current_syscall, "name") THEN Fail(S)
      ELSE
        LET name == current_syscall["name"]
            ret == ev.ret
            ts == ev.timestamp
            S1 == per_tid_syscall_exit(S, name, ret, ts, cpu_id)
            r == Len(S1.rqs) + 1
            S2 == [S1 EXCEPT
                     !.rqs = Append(@, [NewIORequest EXCEPT
                                          !.iotype = IO_SYSCALL,
                                          !.name = name]),
                     !.procs[th].current_syscall = Put(@, "iorequest", r)]
        IN
        IF S1.failed \/ name \notin IO_SYSCALLS THEN S1
        ELSE IF name \in OPEN_SYSCALLS
        THEN
          LET S3 == add_tid_fd(S2, ev, cpu_id)
          IN  IF S3.failed \/ ret < 0 THEN S3
              ELSE IF ~Has(current_syscall, "fdtype") THEN Fail(S3)
              ELSE
                LET g == get_fd(S3, th, ret, ts)
                    S4 == [g.S EXCEPT
                             !.procs[th].current_syscall =
                                 Put(Put(@, "fd", g.f), "count", 0),
                             !.fdh[g.f].fdtype = current_syscall["fdtype"],
                             !.rqs[r].operation = OP_OPEN]
                IN  syscall_exit_reset(
                      track_rw_latency(S4, name, ret, cpu_id, ts), cpu_id)
        ELSE IF name \in READ_SYSCALLS \cup WRITE_SYSCALLS
        THEN syscall_exit_reset(
               track_rw_latency(
                 track_read_write_return(S2, name, ret, cpu_id),
                 name, ret, cpu_id, ts), cpu_id)
        ELSE IF name \in SYNC_SYSCALLS
        THEN
          LET S3 == track_rw_latency(
                      [S2 EXCEPT !.rqs[r].operation = OP_SYNC],
                      name, ret, cpu_id, ts)
          IN  syscall_exit_reset(
                IF name \in SYNC_NAMES
                THEN [S3 EXCEPT !.procs[th].iorequests = Append(@, r)]
                ELSE S3, cpu_id)
        ELSE syscall_exit_reset(S2, cpu_id)

\* the Process objects of the threads running on the CPUs
Running(S) ==
    {S.tids[S.cpus[c]] : c \in {k \in DOMAIN S.cpus : S.cpus[k] # None}}

\* SyscallsStateProvider._process_writeback_pages_written
process_writeback_pages_written(S, ev) ==
    [S EXCEPT !.procs =
        [p \in DOMAIN S.procs |->
            IF p \in Running(S) /\ S.procs[p].current_syscall # EmptyDict
            THEN [S.procs[p] EXCEPT !.current_syscall =
                                        Put(@, "pages_written", ev.pages)]
            ELSE S.procs[p]]]

\* SyscallsStateProvider._process_mm_vmscan_wakeup_kswapd
process_mm_vmscan_wakeup_kswapd(S, ev) ==
    LET cpu_id == ev.cpu_id
    IN  IF UnknownCpu(S, cpu_id) THEN S
        ELSE IF ~Has(S.tids, S.cpus[cpu_id]) THEN Fail(S)
        ELSE
          LET th == CurProc(S, cpu_id)
          IN  IF S.procs[th].current_syscall # EmptyDict THEN S
              ELSE [S EXCEPT !.procs[th].current_syscall =
                                 Put(@, "wakeup_kswapd", 1)]

\* the body of the loop of _process_mm_page_free, for one CPU
mm_page_free_cpu(S, c) ==
    IF S.failed \/ S.cpus[c] = None THEN S
    ELSE
      LET p0 == S.tids[S.cpus[c]]
          redirect == S.procs[p0].comm = "kswapd0" /\ S.procs[p0].prev_tid > 0
      IN  IF redirect /\ ~Has(S.tids, S.procs[p0].prev_tid) THEN Fail(S)
          ELSE
            LET p == IF redirect THEN S.tids[S.procs[p0].prev_tid] ELSE p0
                cs == S.procs[p].current_syscall
            IN  IF cs # EmptyDict THEN S
                ELSE IF Has(cs, "wakeup_kswapd")
                THEN [S EXCEPT !.procs[p].current_syscall =
                        Put(@, "page_free",
                            IF Has(cs, "page_free")
                            THEN cs["page_free"] + 1 ELSE 1)]
                ELSE S

\* SyscallsStateProvider._process_mm_page_free: the loop over self.cpus
RECURSIVE mm_page_free_loop(_, _)
mm_page_free_loop(S, todo) ==
    IF todo = {} THEN S
    ELSE LET c == CHOOSE k \in todo : \A j \in todo : k <= j
         IN  mm_page_free_loop(mm_page_free_cpu(S, c), todo \ {c})

process_mm_page_free(S, ev) == mm_page_free_loop(S, DOMAIN S.cpus)

(***************************************************************************)
(* The statedump provider: linuxautomaton/statedump.py.  A handler that    *)
(* iterates over a dictionary yields the set of states it can end in, one  *)
(* for each order of the keys that matters.                                *)
(***************************************************************************)
\* self.tids[tid], created with sv.Process() when tid is not in self.tids
get_or_create(S, tid, fresh) ==
    IF Has(S.tids, tid) THEN S
    ELSE [S EXCEPT !.procs = Append(@, fresh),
                   !.tids = Put(@, tid, Len(S.procs) + 1)]

\* next(reversed(chrono_fd)): the last timestamp of a chronology
LastTs(chrono_fd) ==
    CHOOSE t \in DOMAIN chrono_fd : \A u \in DOMAIN chrono_fd : u <= t

\* merge_fd_dict, lines 51-65: one fd of the child's open table
merge_fd(S, p, parent, fd) ==
    IF S.failed THEN S
    ELSE
      LET x == S.procs[p].fds[fd]
      IN  IF ~Has(S.procs[parent].fds, fd)
          THEN
            LET S1 == [S EXCEPT !.procs[parent].fds = Put(@, fd, x)]
            IN  IF ~Has(S.procs[p].chrono_fds, fd) THEN Fail(S1)
                ELSE [S1 EXCEPT !.procs[parent].chrono_fds =
                                    Put(@, fd, S.procs[p].chrono_fds[fd])]
          ELSE
            LET y == S.procs[parent].fds[fd]
                fix == S.fdh[y].filename = ""
                chrono == S.procs[parent].chrono_fds
                S1 == IF ~fix THEN S
                      ELSE IF ~Has(chrono, fd) \/ chrono[fd] = EmptyDict
                      THEN Fail([S EXCEPT !.fdh[y].filename =
                                              S.fdh[x].filename])
                      ELSE [S EXCEPT
                              !.fdh[y].filename = S.fdh[x].filename,
                              !.procs[parent].chrono_fds[fd]
                                  [LastTs(chrono[fd])].filename =
                                      S.fdh[x].filename]
                S2 == [S1 EXCEPT !.fdh[y].net_read = @ + S1.fdh[x].net_read]
                S3 == [S2 EXCEPT !.fdh[y].net_write = @ + S2.fdh[x].net_write]
                S4 == [S3 EXCEPT !.fdh[y].disk_read = @ + S3.fdh[x].disk_read]
            IN  IF S1.failed THEN S1
                ELSE [S4 EXCEPT !.fdh[y].disk_write =
                                    @ + S4.fdh[x].disk_write]

\* merge_fd_dict, lines 50-66: the loop over the child's open table
RECURSIVE merge_fds_loop(_, _, _, _)
merge_fds_loop(S, p, parent, todo) ==
    IF todo = {} THEN S
    ELSE LET fd == CHOOSE k \in todo : \A j \in todo : k <= j
         IN  merge_fds_loop(merge_fd(S, p, parent, fd), p, parent,
                            todo \ {fd})

\* merge_fd_dict, lines 48-69, without the removal of the merged keys from
\* the child
merge_open_keeps_child(S, p, parent) ==
    merge_fds_loop(S, p, parent, DOMAIN S.procs[p].fds)

\* merge_fd_dict, lines 48-69: the open tables
merge_open(S, p, parent) ==
    LET todo == DOMAIN S.procs[p].fds
        S1 == merge_fds_loop(S, p, parent, todo)
    IN  IF S1.failed THEN S1
        ELSE IF todo \subseteq DOMAIN S1.procs[p].chrono_fds
        THEN [S1 EXCEPT
                !.procs[p].fds = EmptyDict,
                !.procs[p].chrono_fds =
                    [k \in (DOMAIN @) \ todo |-> @[k]]]
        ELSE Fail([S1 EXCEPT !.procs[p].fds = EmptyDict])

\* merge_fd_dict, lines 70-81: the closed tables.  The loop deletes from
\* the dictionary it iterates over, so that the iteration that follows the
\* first deletion raises RuntimeError; FD objects have no attribute 'name',
\* so that a filename present in both tables raises AttributeError.
merge_closed(S, p, parent) ==
    IF S.failed \/ S.procs[p].closed_fds = EmptyDict THEN {S}
    ELSE {IF ~Has(S.procs[parent].closed_fds, fd)
          THEN Fail([S EXCEPT
                       !.procs[parent].closed_fds =
                           Put(@, fd, S.procs[p].closed_fds[fd]),
                       !.procs[p].closed_fds = Without(@, fd)])
          ELSE Fail(S) : fd \in DOMAIN S.procs[p].closed_fds}

\* StatedumpStateProvider.merge_fd_dict
merge_fd_dict(S, p, parent) == merge_closed(merge_open(S, p, parent), p, parent)

\* _process_lttng_statedump_process_state with a parent that is created
\* anew by each record
process_state_new_parent(S, ev) ==
    LET S1 == get_or_create(S, ev.tid, [NewProcess EXCEPT !.tid = ev.tid])
        p == S1.tids[ev.tid]
        S2 == [S1 EXCEPT !.procs[p].pid = ev.pid, !.procs[p].comm = ev.comm]
        S3 == [S2 EXCEPT
                 !.procs = Append(@, [NewProcess EXCEPT !.tid = ev.pid,
                                                        !.pid = ev.pid,
                                                        !.comm = ev.comm]),
                 !.tids = Put(@, ev.pid, Len(S2.procs) + 1)]
    IN  IF ev.pid # ev.tid
        THEN merge_fd_dict(S3, p, S3.tids[ev.pid])
        ELSE {S2}

\* StatedumpStateProvider._process_lttng_statedump_process_state
process_lttng_statedump_process_state(S, ev) ==
    LET S1 == get_or_create(S, ev.tid, [NewProcess EXCEPT !.tid = ev.tid])
        p == S1.tids[ev.tid]
        S2 == [S1 EXCEPT !.procs[p].pid = ev.pid, !.procs[p].comm = ev.comm]
        S3 == get_or_create(S2, ev.pid,
                            [NewProcess EXCEPT !.tid = ev.pid,
                                               !.pid = ev.pid,
                                               !.comm = ev.comm])
    IN  IF ev.pid # ev.tid
        THEN merge_fd_dict(S3, p, S3.tids[ev.pid])
        ELSE {S2}

\* StatedumpStateProvider._process_lttng_statedump_file_descriptor
process_lttng_statedump_file_descriptor(S, ev) ==
    LET S1 == get_or_create(S, ev.pid, [NewProcess EXCEPT !.pid = ev.pid,
                                                          !.tid = ev.pid])
        proc == S1.tids[ev.pid]
        f == IF Has(S1.procs[proc].fds, ev.fd) THEN S1.procs[proc].fds[ev.fd]
             ELSE Len(S1.fdh) + 1
        S2 == IF Has(S1.procs[proc].fds, ev.fd)
              THEN [S1 EXCEPT !.fdh[f].filename = ev.filename]
              ELSE [S1 EXCEPT
                      !.fdh = Append(@, [NewFD EXCEPT
                                 !.filename = ev.filename,
                                 !.fd = ev.fd,
                                 !.cloexec = IF ev.cloexec THEN 1 ELSE 0]),
                      !.procs[proc].fds = Put(@, ev.fd, f)]
    IN  track_chrono_fd(S2, proc, ev.fd, ev.filename, S2.fdh[f].fdtype,
                        ev.timestamp)

\* Disk()
NewDisk ==
    [name |-> "", prettyname |-> "", nr_sector |-> 0, nr_requests |-> 0,
     completed_requests |-> 0, request_time |-> 0]

\* common.get_disk: the state it leaves and the Disk it returns, None when
\* it raises.  For a dev that is not in disks, line 53 assigns an attribute
\* of the integer dev, which raises AttributeError before anything is
\* stored.
get_disk(S, dev) ==
    IF ~Has(S.disks, dev)
    THEN [S |-> Fail(S), disk |-> None]
    ELSE [S |-> S, disk |-> dev]

\* StatedumpStateProvider._process_lttng_statedump_block_device
process_lttng_statedump_block_device(S, ev) ==
    LET g == get_disk(S, ev.dev)
    IN  IF g.S.failed THEN g.S
        ELSE [g.S EXCEPT !.disks[g.disk].prettyname = ev.diskname]

(***************************************************************************)
(* reset(): the counters of every object start again from zero             *)
(***************************************************************************)
\* FD.init_counts that keeps the total of the bytes read
FD_init_counts_keeps_read(f) ==
    [f EXCEPT !.net_read = 0, !.net_write = 0,
              !.disk_read = 0, !.disk_write = 0,
              !.unk_read = 0, !.unk_write = 0,
              !.write = 0,
              !.open = 0, !.close = 0, !.cloexec = 0,
              !.iorequests = <<>>]

\* FD.init_counts
FD_init_counts(f) ==
    [f EXCEPT !.net_read = 0, !.net_write = 0,
              !.disk_read = 0, !.disk_write = 0,
              !.unk_read = 0, !.unk_write = 0,
              !.read = 0, !.write = 0,
              !.open = 0, !.close = 0, !.cloexec = 0,
              !.iorequests = <<>>]

\* Process.init_counts
Process_init_counts(p) ==
    [p EXCEPT !.net_read = 0, !.net_write = 0,
              !.disk_read = 0, !.disk_write = 0,
              !.unk_read = 0, !.unk_write = 0,
              !.read = 0, !.write = 0,
              !.prev_tid = -1,
              !.syscalls = EmptyDict,
              !.total_syscalls = 0,
              !.iorequests = <<>>]

\* the descriptors in the open and closed tables of the known processes
TableFds(S) ==
    UNION {{S.procs[S.tids[t]].fds[k] : k \in DOMAIN S.procs[S.tids[t]].fds}
           \cup {S.procs[S.tids[t]].closed_fds[k] :
                    k \in DOMAIN S.procs[S.tids[t]].closed_fds} :
           t \in DOMAIN S.tids}

\* reset(): init_counts of every known process and of every descriptor in
\* its tables; no table changes
reset(S) ==
    [S EXCEPT
       !.procs = [i \in DOMAIN S.procs |->
                    IF \E t \in DOMAIN S.tids : S.tids[t] = i
                    THEN Process_init_counts(S.procs[i])
                    ELSE S.procs[i]],
       !.fdh = [i \in DOMAIN S.fdh |->
                  IF i \in TableFds(S) THEN FD_init_counts(S.fdh[i])
                  ELSE S.fdh[i]]]

(***************************************************************************)
(* The events of the syscall side of the stream and the steps that hand    *)
(* them to the provider.  Tids are the threads the scheduler collaborator  *)
(* reports; a thread runs on one CPU at a time.                            *)
(***************************************************************************)
MaxSysEvents == 4
MaxReadEvents == 7

Tids == {1, 2}
SysRets == {-1, 0, 1}
Fds == {0}

\* an event and its fields; None where the event has no such field
Ev(name, c, ts) ==
    [name |-> name, cpu_id |-> c, timestamp |-> ts, fd |-> 0, fd2 |-> 0,
     count |-> None, filename |-> "", cloexec |-> FALSE, family |-> None,
     addr |-> 0, port |-> 0, cmd |-> 0, op |-> 0, ctxpid |-> None,
     ret |-> 0, pages |-> 0, tid |-> None, pid |-> None, comm |-> "",
     dev |-> None, diskname |-> ""]

\* the syscall entries of the stream
EntryEvents(c, ts) ==
    {[Ev("sys_open", c, ts) EXCEPT !.filename = "/tmp/a"],
     Ev("sys_sync", c, ts),
     Ev("sys_getpid", c, ts),
     [Ev("sys_fcntl", c, ts) EXCEPT !.cmd = 3]}
    \cup {[Ev("sys_read", c, ts) EXCEPT !.fd = f, !.count = 1] : f \in Fds}

\* the entries of threads that open and read, in a trace that carries the
\* pid context: thread 2 is the leader of the process of both threads
OpenReadEvents(c, ts) ==
    {[Ev("sys_open", c, ts) EXCEPT !.filename = "/tmp/a", !.ctxpid = 2]}
    \cup {[Ev("sys_read", c, ts) EXCEPT !.fd = f, !.count = 1, !.ctxpid = 2] :
              f \in Fds}

\* the provider's state as one value, and its write-back
State ==
    [cpus |-> cpus, tids |-> tids, procs |-> procs, fdh |-> fdh,
     rqs |-> rqs, syscalls |-> syscalls,
     pending_syscalls |-> pending_syscalls, failed |-> failed,
     disks |-> disks]

Commit(S) ==
    /\ cpus' = S.cpus
    /\ tids' = S.tids
    /\ procs' = S.procs
    /\ fdh' = S.fdh
    /\ rqs' = S.rqs
    /\ syscalls' = S.syscalls
    /\ pending_syscalls' = S.pending_syscalls
    /\ failed' = S.failed
    /\ disks' = S.disks

\* the timestamps the next event of a CPU can have: the one of the event
\* the loop of _run_analysis has taken, where that loop is followed; else
\* the one of the previous event of the CPU or one microsecond more
EventTimes(c) ==
    IF taken # <<>> THEN {taken[Len(taken)]}
    ELSE {clock[c], clock[c] + NsPerUs}

\* an event of the syscall side is read: the run has not failed
ReadSysEvent(kind, ev, max) ==
    /\ ~failed
    /\ nev < max
    /\ ev.timestamp \in EventTimes(ev.cpu_id)
    /\ clock' = [clock EXCEPT ![ev.cpu_id] = ev.timestamp]
    /\ nev' = nev + 1
    /\ lastEv' = [kind |-> kind, cpu_id |-> ev.cpu_id, nr |-> 0,
                  ts |-> ev.timestamp]
    /\ sysEv' = ev
    /\ dumped' = IF kind = "lttng_statedump_process_state" THEN dumped + 1
                 ELSE 0
    /\ UNCHANGED <<irqVars, runVars>>

\* the samples of a thread: per syscall name, the number of durations kept
Samples(S, tid) ==
    LET sc == S.procs[S.tids[tid]].syscalls
    IN  [n \in DOMAIN sc |-> Len(sc[n].rq)]

\* the scheduler collaborator: tid becomes the current thread of CPU c
SchedSwitch(c, tid, ts, max) ==
    /\ ReadSysEvent("sched_switch", Ev("sched_switch", c, ts), max)
    /\ \A k \in DOMAIN cpus : k # c => cpus[k] # tid
    /\ cpus' = Put(cpus, c, tid)
    /\ IF Has(tids, tid)
       THEN UNCHANGED <<tids, procs>>
       ELSE /\ procs' = Append(procs, [NewProcess EXCEPT !.tid = tid])
            /\ tids' = Put(tids, tid, Len(procs) + 1)
    /\ UNCHANGED <<fdh, rqs, syscalls, pending_syscalls, failed, disks>>
    /\ UNCHANGED <<lastSys, opened>>

\* the scheduler collaborator: the current thread of CPU c is not known
CpuUnknown(c, ts, max) ==
    /\ ReadSysEvent("cpu_unknown", Ev("cpu_unknown", c, ts), max)
    /\ cpus' = Put(cpus, c, None)
    /\ UNCHANGED <<tids, procs, fdh, rqs, syscalls, pending_syscalls, failed,
                   disks>>
    /\ UNCHANGED <<lastSys, opened>>

\* 'syscall_entry': _process_syscall_entry
SyscallEntry(ev, max) ==
    /\ ReadSysEvent("syscall_entry", ev, max)
    /\ LET S == process_syscall_entry(State, ev)
       IN  /\ Commit(S)
           /\ lastSys' =
                IF UnknownCpu(State, ev.cpu_id) THEN lastSys
                ELSE [lastSys EXCEPT ![cpus[ev.cpu_id]] =
                        [kind |-> "entry", ts |-> ev.timestamp,
                         name |-> ev.name, fd |-> ev.fd,
                         nrq |-> Len(S.rqs), woken |-> FALSE,
                         samples |-> IF S.failed THEN EmptyDict
                                     ELSE Samples(S, cpus[ev.cpu_id])]]
    /\ UNCHANGED opened

\* 'syscall_exit': _process_syscall_exit
SyscallExit(ev, max) ==
    /\ ReadSysEvent("syscall_exit", ev, max)
    /\ Commit(process_syscall_exit(State, ev))
    /\ IF UnknownCpu(State, ev.cpu_id)
       THEN UNCHANGED <<lastSys, opened>>
       ELSE LET tid == cpus[ev.cpu_id]
            IN  /\ lastSys' = [lastSys EXCEPT ![tid].kind = "exit",
                                              ![tid].ts = ev.timestamp]
                /\ opened' =
                     IF /\ lastSys[tid].kind = "entry"
                        /\ lastSys[tid].name \in DISK_OPEN_SYSCALLS
                        /\ ev.ret >= 0
                     THEN [opened EXCEPT ![tid] = @ \cup {ev.ret}]
                     ELSE opened

\* 'writeback_pages_written': _process_writeback_pages_written
WritebackPagesWritten(ev, max) ==
    /\ ReadSysEvent("writeback_pages_written", ev, max)
    /\ Commit(process_writeback_pages_written(State, ev))
    /\ UNCHANGED <<lastSys, opened>>

\* 'mm_vmscan_wakeup_kswapd': _process_mm_vmscan_wakeup_kswapd
WakeupKswapd(ev, max) ==
    /\ ReadSysEvent("mm_vmscan_wakeup_kswapd", ev, max)
    /\ Commit(process_mm_vmscan_wakeup_kswapd(State, ev))
    /\ lastSys' =
         IF UnknownCpu(State, ev.cpu_id) THEN lastSys
         ELSE IF lastSys[cpus[ev.cpu_id]].kind # "entry" THEN lastSys
         ELSE [lastSys EXCEPT ![cpus[ev.cpu_id]].woken = TRUE]
    /\ UNCHANGED opened

\* 'mm_page_free': _process_mm_page_free
MmPageFree(ev, max) ==
    /\ ReadSysEvent("mm_page_free", ev, max)
    /\ Commit(process_mm_page_free(State, ev))
    /\ UNCHANGED <<lastSys, opened>>

\* 'lttng_statedump_process_state'
StatedumpProcessState(ev, max) ==
    /\ ReadSysEvent("lttng_statedump_process_state", ev, max)
    /\ \E S \in process_lttng_statedump_process_state(State, ev) : Commit(S)
    /\ UNCHANGED <<lastSys, opened>>

\* 'lttng_statedump_file_descriptor'
StatedumpFileDescriptor(ev, max) ==
    /\ ReadSysEvent("lttng_statedump_file_descriptor", ev, max)
    /\ Commit(process_lttng_statedump_file_descriptor(State, ev))
    /\ UNCHANGED <<lastSys, opened>>

\* the analysis is reset between two reporting windows
Reset(max) ==
    /\ ~failed
    /\ nev < max
    /\ nev' = nev + 1
    /\ lastEv' = [kind |-> "reset", cpu_id |-> 0, nr |-> 0, ts |-> 0]
    /\ sysEv' = Ev("reset", 0, 0)
    /\ dumped' = 0
    /\ Commit(reset(State))
    /\ UNCHANGED <<clock, irqVars, runVars, lastSys, opened>>

\* 'lttng_statedump_block_device'
StatedumpBlockDevice(ev, max) ==
    /\ ReadSysEvent("lttng_statedump_block_device", ev, max)
    /\ Commit(process_lttng_statedump_block_device(State, ev))
    /\ UNCHANGED <<lastSys, opened>>

\* SyscallsStateProvider.__init__ on a fresh State
InitSys ==
    /\ cpus = EmptyDict
    /\ tids = EmptyDict
    /\ procs = <<>>
    /\ fdh = <<>>
    /\ rqs = <<>>
    /\ syscalls = Put(EmptyDict, "total", 0)
    /\ pending_syscalls = <<>>
    /\ failed = FALSE
    /\ disks = EmptyDict
    /\ lastSys = [t \in Tids |->
                    [kind |-> "none", ts |-> 0, name |-> "", fd |-> 0,
                     nrq |-> 0, woken |-> FALSE, samples |-> EmptyDict]]
    /\ opened = [t \in Tids |-> {}]
    /\ sysEv = Ev("none", 0, 0)
    /\ dumped = 0

\* Command: no end-time bound, the loop of _run_analysis is running
\* _run_analysis before its loop, without --refresh and --begin
InitLoop ==
    /\ arg_refresh = 0
    /\ arg_begin = None
    /\ started = TRUE
    /\ current_sec = 0
    /\ start_ns = 0
    /\ taken = <<>>
    /\ calls = <<>>

InitRun ==
    /\ arg_end = None
    /\ stopped = FALSE
    /\ InitLoop

Init == InitIrq /\ InitSys /\ InitRun

SpecIrq == Init /\ [][NextIrq]_vars

\* the command line: no filter, --min 1 or --max 1 (microseconds)
Filters == {NoFilter, [min |-> 1, max |-> None], [min |-> None, max |-> 1]}

\* the interrupt correlator started with any of the filters
InitFilter ==
    /\ clock = [c \in CpuIds |-> 0]
    /\ nev = 0
    /\ irq = InterruptInit
    /\ irqHeap = <<>>
    /\ args \in Filters
    /\ softHist = [c \in CpuIds |-> <<>>]
    /\ raisedAt = [c \in CpuIds |-> EmptyDict]
    /\ expRaise = <<>>
    /\ lastEv = [kind |-> "none", cpu_id |-> 0, nr |-> 0, ts |-> 0]
    /\ InitSys
    /\ InitRun

SpecIrqFilter == InitFilter /\ [][NextIrq]_vars

\* any stream of syscall, scheduler and side-channel events
NextSys ==
    \E c \in CpuIds, ts \in Times :
        \/ \E tid \in Tids : SchedSwitch(c, tid, ts, MaxSysEvents)
        \/ \E ev \in EntryEvents(c, ts) : SyscallEntry(ev, MaxSysEvents)
        \/ \E r \in SysRets :
              SyscallExit([Ev("syscall_exit", c, ts) EXCEPT !.ret = r],
                          MaxSysEvents)
        \/ WritebackPagesWritten(
              [Ev("writeback_pages_written", c, ts) EXCEPT !.pages = 1],
              MaxSysEvents)
        \/ WakeupKswapd(Ev("mm_vmscan_wakeup_kswapd", c, ts), MaxSysEvents)
        \/ MmPageFree(Ev("mm_page_free", c, ts), MaxSysEvents)

SpecSys == Init /\ [][NextSys]_vars

\* the streams of two threads of one process that open and read; every
\* event is one microsecond after the previous event of its CPU
NextRead ==
    \E c \in CpuIds : \E ts \in {clock[c] + NsPerUs} :
        \/ \E tid \in Tids : SchedSwitch(c, tid, ts, MaxReadEvents)
        \/ \E ev \in OpenReadEvents(c, ts) : SyscallEntry(ev, MaxReadEvents)
        \/ \E r \in SysRets :
              SyscallExit([Ev("syscall_exit", c, ts) EXCEPT !.ret = r],
                          MaxReadEvents)

SpecRead == Init /\ [][NextRead]_vars

(***************************************************************************)
(* A trace with a state dump: thread 1 reads and closes descriptor 0, the  *)
(* dump lists descriptor 0 of process 2 and thread 1 as a thread of        *)
(* process 2.                                                              *)
(***************************************************************************)
MaxDumpEvents == 5

DumpEntryEvents(c, ts) ==
    {[Ev("sys_read", c, ts) EXCEPT !.fd = 0, !.count = 1],
     [Ev("sys_close", c, ts) EXCEPT !.fd = 0]}

DumpProcessState(c, ts) ==
    [Ev("lttng_statedump_process_state", c, ts) EXCEPT
        !.tid = 1, !.pid = 2, !.comm = "app"]

DumpFileDescriptor(c, ts) ==
    [Ev("lttng_statedump_file_descriptor", c, ts) EXCEPT
        !.pid = 2, !.fd = 0, !.filename = "/tmp/a"]

NextDump ==
    \E c \in CpuIds : \E ts \in {clock[c] + NsPerUs} :
        \/ SchedSwitch(c, 1, ts, MaxDumpEvents)
        \/ \E ev \in DumpEntryEvents(c, ts) : SyscallEntry(ev, MaxDumpEvents)
        \/ \E r \in SysRets :
              SyscallExit([Ev("syscall_exit", c, ts) EXCEPT !.ret = r],
                          MaxDumpEvents)
        \/ StatedumpProcessState(DumpProcessState(c, ts), MaxDumpEvents)
        \/ StatedumpFileDescriptor(DumpFileDescriptor(c, ts), MaxDumpEvents)

SpecDump == Init /\ [][NextDump]_vars

(***************************************************************************)
(* A trace of a thread that opens, duplicates, reads and closes            *)
(* descriptors, some of them listed by the state dump, with gaps in the    *)
(* scheduling information.                                                 *)
(***************************************************************************)
MaxFdEvents == 5

FdEntryEvents(c, ts) ==
    {[Ev("sys_open", c, ts) EXCEPT !.filename = "/tmp/a"],
     [Ev("sys_close", c, ts) EXCEPT !.fd = 0],
     [Ev("sys_dup2", c, ts) EXCEPT !.fd = 0, !.fd2 = 1],
     [Ev("sys_read", c, ts) EXCEPT !.fd = 0, !.count = 1]}

FdFileDescriptor(c, ts) ==
    [Ev("lttng_statedump_file_descriptor", c, ts) EXCEPT
        !.pid = 1, !.fd = 0, !.filename = "/tmp/a"]

NextFd ==
    \E c \in CpuIds : \E ts \in {clock[c] + NsPerUs} :
        \/ SchedSwitch(c, 1, ts, MaxFdEvents)
        \/ CpuUnknown(c, ts, MaxFdEvents)
        \/ \E ev \in FdEntryEvents(c, ts) : SyscallEntry(ev, MaxFdEvents)
        \/ \E r \in SysRets :
              SyscallExit([Ev("syscall_exit", c, ts) EXCEPT !.ret = r],
                          MaxFdEvents)
        \/ WakeupKswapd(Ev("mm_vmscan_wakeup_kswapd", c, ts), MaxFdEvents)
        \/ StatedumpFileDescriptor(FdFileDescriptor(c, ts), MaxFdEvents)

SpecFd == Init /\ [][NextFd]_vars

\* the trace with a state dump that lists a block device
DumpBlockDevice(c, ts) ==
    [Ev("lttng_statedump_block_device", c, ts) EXCEPT
        !.dev = 1, !.diskname = "sda"]

NextDisk ==
    \/ NextDump
    \/ \E c \in CpuIds : \E ts \in {clock[c] + NsPerUs} :
          StatedumpBlockDevice(DumpBlockDevice(c, ts), MaxDumpEvents)

SpecDisk == Init /\ [][NextDisk]_vars

(***************************************************************************)
(* A trace whose state dump comes after the thread has opened and read a   *)
(* file: the dump lists descriptor 0 of process 1 under another name.      *)
(***************************************************************************)
SnapEntryEvents(c, ts) ==
    {[Ev("sys_open", c, ts) EXCEPT !.filename = "/tmp/b"],
     [Ev("sys_read", c, ts) EXCEPT !.fd = 0, !.count = 1]}

SnapFileDescriptor(c, ts, cloexec) ==
    [Ev("lttng_statedump_file_descriptor", c, ts) EXCEPT
        !.pid = 1, !.fd = 0, !.filename = "/tmp/a", !.cloexec = cloexec]

NextSnap ==
    \E c \in CpuIds : \E ts \in {clock[c] + NsPerUs} :
        \/ SchedSwitch(c, 1, ts, MaxFdEvents)
        \/ \E ev \in SnapEntryEvents(c, ts) : SyscallEntry(ev, MaxFdEvents)
        \/ \E r \in SysRets :
              SyscallExit([Ev("syscall_exit", c, ts) EXCEPT !.ret = r],
                          MaxFdEvents)
        \/ \E x \in BOOLEAN :
              StatedumpFileDescriptor(SnapFileDescriptor(c, ts, x),
                                      MaxFdEvents)

SpecSnap == Init /\ [][NextSnap]_vars

(***************************************************************************)
(* Command._run_analysis with an end-time bound: the events of one CPU, in *)
(* the order of their timestamps.                                          *)
(***************************************************************************)
Ends == {None, NsPerUs, 2 * NsPerUs}

InitEnd ==
    /\ InitIrq
    /\ InitSys
    /\ arg_end \in Ends
    /\ stopped = FALSE
    /\ InitLoop

\* the test of line 56 with a bound that is one microsecond late
PastEnd_late(ts) == arg_end # None /\ ts > arg_end + NsPerUs

\* if self._arg_end and event.timestamp > self._arg_end
PastEnd(ts) == arg_end # None /\ ts > arg_end

\* break: the event is not fed, the loop is left
Break(ts) ==
    /\ ~stopped
    /\ PastEnd(ts)
    /\ stopped' = TRUE
    /\ UNCHANGED <<clock, nev, lastEv, irqVars, sysVars, sysHist, arg_end,
                   loopVars>>

\* the event is fed: self._analysis.process_event(event) and
\* self._automaton.process_event(event) are reached
Feeds(ts) == ~stopped /\ ~PastEnd(ts)

\* one turn of the loop of _run_analysis
NextEnd ==
    \E ts \in {clock[0], clock[0] + NsPerUs} :
        \/ Break(ts)
        \/ Feeds(ts) /\ SchedSwitch(0, 1, ts, MaxSysEvents)
        \/ Feeds(ts) /\ SyscallEntry([Ev("sys_read", 0, ts) EXCEPT
                                         !.fd = 0, !.count = 1],
                                     MaxSysEvents)
        \/ \E r \in SysRets :
              Feeds(ts) /\ SyscallExit([Ev("syscall_exit", 0, ts) EXCEPT
                                          !.ret = r], MaxSysEvents)
        \/ \E n \in Irqs : Feeds(ts) /\ HardEntry(0, n, ts)
        \/ \E n \in Irqs, r \in Rets : Feeds(ts) /\ HardExit(0, n, r, ts)

SpecEnd == InitEnd /\ [][NextEnd]_vars

(***************************************************************************)
(* A trace of one thread on one CPU that opens, reads, closes and reopens  *)
(* one file.                                                               *)
(***************************************************************************)
MaxReopenEvents == 9

ReopenEntryEvents(c, ts) ==
    {[Ev("sys_open", c, ts) EXCEPT !.filename = "/tmp/a"],
     [Ev("sys_read", c, ts) EXCEPT !.fd = 0, !.count = 1],
     [Ev("sys_close", c, ts) EXCEPT !.fd = 0]}

\* the kernel does not return, from an open, an fd number that is open
FreeFd(c, r) ==
    IF UnknownCpu(State, c) THEN TRUE
    ELSE IF ~Has(tids, cpus[c]) THEN TRUE
    ELSE LET t == procs[tids[cpus[c]]]
             cs == t.current_syscall
             q == IF t.pid # None /\ t.tid # t.pid /\ Has(tids, t.pid)
                  THEN tids[t.pid] ELSE tids[cpus[c]]
         IN  IF ~Has(cs, "name") THEN TRUE
             ELSE IF cs["name"] \notin OPEN_SYSCALLS THEN TRUE
             ELSE ~Has(procs[q].fds, r)

NextReopen ==
    \E ts \in {clock[0] + NsPerUs} :
        \/ /\ ~Has(cpus, 0)
           /\ SchedSwitch(0, 1, ts, MaxReopenEvents)
        \/ \E ev \in ReopenEntryEvents(0, ts) :
              SyscallEntry(ev, MaxReopenEvents)
        \/ \E r \in {0, 1} :
              /\ FreeFd(0, r)
              /\ SyscallExit([Ev("syscall_exit", 0, ts) EXCEPT !.ret = r],
                             MaxReopenEvents)

SpecReopen == Init /\ [][NextReopen]_vars

\* the same trace, reported in windows
NextReset == NextDump \/ Reset(MaxDumpEvents)

SpecReset == Init /\ [][NextReset]_vars

(***************************************************************************)
(* A trace of the two threads of one process (thread 2 is the leader) that *)
(* open files and sockets, accept connections and make a syscall that is   *)
(* in no catalog.                                                          *)
(***************************************************************************)
MaxOpenEvents == 4

\* the 'family' field of a socket or accept entry; None: no such field
Families == {None, AF_UNSPEC, AF_UNIX, AF_INET, AF_INET6}

OpenEntryEvents(c, ts) ==
    {[Ev("sys_open", c, ts) EXCEPT !.filename = "/tmp/a", !.ctxpid = 2],
     [Ev("sys_getpid", c, ts) EXCEPT !.ctxpid = 2]}
    \cup {[Ev(n, c, ts) EXCEPT !.family = f, !.addr = 1, !.port = 80,
                               !.ctxpid = 2] :
              n \in {"sys_socket", "sys_accept"}, f \in Families}

NextOpen ==
    \E c \in CpuIds : \E ts \in {clock[c] + NsPerUs} :
        \/ \E tid \in Tids : SchedSwitch(c, tid, ts, MaxOpenEvents)
        \/ \E ev \in OpenEntryEvents(c, ts) : SyscallEntry(ev, MaxOpenEvents)
        \/ \E r \in SysRets :
              SyscallExit([Ev("syscall_exit", c, ts) EXCEPT !.ret = r],
                          MaxOpenEvents)

SpecOpen == Init /\ [][NextOpen]_vars

(***************************************************************************)
(* Command._run_analysis with --refresh and --begin: the events of one     *)
(* CPU, a tenth of a second into the trace clock and then half a second    *)
(* or a second apart.  A turn of the loop is two steps: TakeEvent is the   *)
(* turn up to and including _check_refresh, and the step that follows      *)
(* feeds the event taken to the analysis and to the automaton.             *)
(***************************************************************************)
MaxRefreshEvents == 5

\* common.NSEC_PER_SEC
NSEC_PER_SEC == 1000000000

Gaps == {NSEC_PER_SEC \div 2, NSEC_PER_SEC}
FirstTime == NSEC_PER_SEC \div 10
TraceEnd == FirstTime + 2 * NSEC_PER_SEC

\* the timestamp of the next event of the trace
NextTimes ==
    IF taken = <<>> THEN {FirstTime}
    ELSE {clock[0] + g : g \in {d \in Gaps : d <= TraceEnd - clock[0]}}

Refreshes == {0, 1}
Begins == {None, FirstTime + NSEC_PER_SEC}

InitRefresh ==
    /\ InitIrq
    /\ InitSys
    /\ arg_end = None
    /\ stopped = FALSE
    /\ arg_refresh \in Refreshes
    /\ arg_begin \in Begins
    /\ started = (arg_begin = None)
    /\ current_sec = 0
    /\ start_ns = 0
    /\ taken = <<>>
    /\ calls = <<>>

\* the loop has taken an event and not fed it yet
InHand == Len(taken) = nev + 1

\* the test of _check_refresh (lines 75-81) on an event of timestamp ts.
\* event_sec and current_sec are the float quotients timestamp / 10^9;
\* on the timestamps of this trace these quotients compare as the
\* timestamps do, so that current_sec + arg_refresh <= event_sec is the
\* test of the time between the two timestamps
RefreshDue(ts) ==
    /\ arg_refresh # 0
    /\ current_sec # 0
    /\ current_sec # ts
    /\ arg_refresh * NSEC_PER_SEC <= ts - current_sec

\* the turn of the loop for an event of timestamp ts, down to the feeding
\* (trace_start_ts, end_ns and trace_end_ts, read by the final report only,
\* are left out).  reset_cb is _reset_total, refresh_cb is _refresh, which
\* prints the tables and then calls _reset_total
TakeEvent(ts) ==
    LET begins == arg_begin # None /\ ~started /\ ts >= arg_begin
        S1 == IF begins THEN reset(State) ELSE State
        start1 == IF begins THEN ts ELSE start_ns
        start2 == IF start1 = 0 THEN ts ELSE start1
        due == RefreshDue(ts)
    IN  /\ ~stopped
        /\ ~failed
        /\ ~InHand
        /\ nev < MaxRefreshEvents
        /\ ~PastEnd(ts)
        /\ started' = (started \/ begins)
        /\ taken' = Append(taken, ts)
        /\ calls' = IF due
                    THEN Append(calls, [begin |-> start2, end |-> ts,
                                        fed |-> nev])
                    ELSE calls
        /\ Commit(IF due THEN reset(S1) ELSE S1)
        /\ current_sec' = IF arg_refresh = 0 THEN current_sec
                          ELSE IF current_sec = 0 \/ due THEN ts
                          ELSE current_sec
        /\ start_ns' = IF due THEN ts ELSE start2
        /\ UNCHANGED <<clock, nev, lastEv, irqVars, sysHist, arg_end,
                       stopped, arg_refresh, arg_begin>>

NextRefresh ==
    \/ \E ts \in NextTimes : TakeEvent(ts)
    \/ \E ts \in EventTimes(0) :
          \/ InHand /\ SchedSwitch(0, 1, ts, MaxRefreshEvents)
          \/ InHand /\ SyscallEntry([Ev("sys_read", 0, ts) EXCEPT
                                        !.fd = 0, !.count = 1],
                                    MaxRefreshEvents)
          \/ InHand /\ SyscallExit([Ev("syscall_exit", 0, ts) EXCEPT
                                       !.ret = 1],
                                   MaxRefreshEvents)

SpecRefresh == InitRefresh /\ [][NextRefresh]_vars

(***************************************************************************)
(* The syscall latency statistics of the I/O report (io.py), computed on   *)
(* the tables of the provider; no size, latency or process filter is set.  *)
(***************************************************************************)
\* the operations the statistics have a category for
StatOps == {OP_READ, OP_WRITE, OP_SYNC, OP_OPEN}

\* class Syscalls_stats: per category, the count and the total duration
NewSyscalls_stats == [op \in StatOps |-> [count |-> 0, total |-> 0]]

\* the range test of account_syscall_iorequests (0 and None are falsy)
OutOfRange(rq) ==
    /\ arg_begin # None /\ arg_begin # 0
    /\ arg_end # None /\ arg_end # 0
    /\ rq.end # None /\ rq.end # 0
    /\ rq.begin > arg_end

\* IoAnalysisCommand.account_syscall_iorequests
RECURSIVE account_syscall_iorequests(_, _, _)
account_syscall_iorequests(S, s, iorequests) ==
    IF iorequests = <<>> THEN s
    ELSE
      LET rq == S.rqs[Head(iorequests)]
          s1 == IF OutOfRange(rq) THEN s
                ELSE IF rq.iotype # IO_SYSCALL THEN s
                ELSE IF rq.operation \in StatOps
                THEN [s EXCEPT ![rq.operation].count = @ + 1,
                               ![rq.operation].total = @ + rq.duration]
                ELSE s
      IN  account_syscall_iorequests(S, s1, Tail(iorequests))

\* for fd in table.values(): account_syscall_iorequests(s, fd.iorequests)
RECURSIVE account_table(_, _, _, _)
account_table(S, s, table, keys) ==
    IF keys = {} THEN s
    ELSE
      LET k == CHOOSE x \in keys : TRUE
      IN  account_table(
            S, account_syscall_iorequests(S, s, S.fdh[table[k]].iorequests),
            table, keys \ {k})

\* the loop of compute_syscalls_latency_stats over self.state.tids.values()
RECURSIVE account_tids(_, _, _)
account_tids(S, s, keys) ==
    IF keys = {} THEN s
    ELSE
      LET k == CHOOSE x \in keys : TRUE
          tid == S.procs[S.tids[k]]
          s1 == account_syscall_iorequests(S, s, tid.iorequests)
          s2 == account_table(S, s1, tid.fds, DOMAIN tid.fds)
          s3 == account_table(S, s2, tid.closed_fds, DOMAIN tid.closed_fds)
      IN  account_tids(S, s3, keys \ {k})

\* IoAnalysisCommand.compute_syscalls_latency_stats
compute_syscalls_latency_stats(S) ==
    account_tids(S, NewSyscalls_stats, DOMAIN S.tids)

(***************************************************************************)
(* Properties of the interrupt correlator                                  *)
(***************************************************************************)
\* the event read by this step
Reads(kind) == nev' = nev + 1 /\ lastEv'.kind = kind

(***************************************************************************)
(* Properties of the syscall correlator                                    *)
(***************************************************************************)
\* the step reads an event of this kind on a CPU whose thread is known
ReadsFor(kind) == Reads(kind) /\ ~UnknownCpu(State, lastEv'.cpu_id)

\* the thread the event of this step is processed for
EvTid == cpus[lastEv'.cpu_id]

\* the process that owns the descriptors of a thread
Owner(tid) ==
    LET t == procs[tids[tid]]
    IN  IF t.pid # None /\ t.tid # t.pid THEN tids[t.pid] ELSE tids[tid]

\* C1: every IORequest a syscall exit produces begins at the timestamp of
\* the matching entry of that thread (the thread's last syscall event is
\* that entry), ends at the exit's timestamp and lasts end - begin >= 0.
C1_IntervalOfMatchingEntry ==
    [][ReadsFor("syscall_exit") =>
         \A r \in 1..Len(rqs') :
            (r > Len(rqs) /\ rqs'[r].end # None) =>
               /\ lastSys[EvTid].kind = "entry"
               /\ rqs'[r].begin = lastSys[EvTid].ts
               /\ rqs'[r].end = lastEv'.ts
               /\ rqs'[r].duration = rqs'[r].end - rqs'[r].begin
               /\ rqs'[r].duration >= 0]_vars

\* C2: a syscall exit of a thread with no entry since its last exit is
\* ignored: the provider's state is unchanged and the run does not fail,
\* whatever side-channel events came before.
C2_IdleExitIgnored ==
    [][(ReadsFor("syscall_exit") /\ lastSys[EvTid].kind # "entry")
          => UNCHANGED sysVars]_vars

\* C3: after a syscall exit processed for a thread whose in-flight record
\* is non-empty, the record of that thread is empty, whatever the name of
\* the syscall and whatever its return value.
C3_ExitReturnsToIdle ==
    [][(/\ ReadsFor("syscall_exit")
        /\ lastSys[EvTid].kind = "entry"
        /\ procs[tids[EvTid]].current_syscall # EmptyDict
        /\ ~failed')
          => procs'[tids[EvTid]].current_syscall = EmptyDict]_vars

\* what the entry of this step leaves in the record of an idle thread
FreshRecord ==
    LET th == tids[EvTid]
        idle == [State EXCEPT !.procs[th].current_syscall = EmptyDict]
    IN  process_syscall_entry(idle, sysEv').procs[th].current_syscall

\* C4: an entry for a thread that is already in flight replaces the old
\* record: afterwards the record holds what the new entry alone would
\* have recorded, and nothing of the orphaned entry.
C4_EntryReplacesRecord ==
    [][(/\ ReadsFor("syscall_entry")
        /\ lastSys[EvTid].kind = "entry"
        /\ procs[tids[EvTid]].current_syscall # EmptyDict
        /\ ~failed')
          => procs'[tids[EvTid]].current_syscall = FreshRecord]_vars

\* C5: when a thread that opened fd f completes a read on f returning
\* n > 0, entered at t1 and left at t2, descriptor f of the owning process
\* and the owning process both have read increased by exactly n, and
\* exactly one IORequest is added, with operation read, size n and
\* duration t2 - t1, kept in the list of that descriptor.
C5_OpenThenRead ==
    [][(/\ ReadsFor("syscall_exit")
        /\ lastSys[EvTid].kind = "entry"
        /\ lastSys[EvTid].name \in {"sys_read", "syscall_entry_read"}
        /\ lastSys[EvTid].fd \in opened[EvTid]
        /\ sysEv'.ret > 0)
          => LET q == Owner(EvTid)
                 f == lastSys[EvTid].fd
                 n == sysEv'.ret
                 r == Len(rqs')
             IN  /\ ~failed'
                 /\ Has(procs[q].fds, f)
                 /\ Has(procs'[q].fds, f)
                 /\ procs'[q].fds[f] = procs[q].fds[f]
                 /\ fdh'[procs[q].fds[f]].read
                        = fdh[procs[q].fds[f]].read + n
                 /\ procs'[q].read = procs[q].read + n
                 /\ r = Len(rqs) + 1
                 /\ rqs'[r].operation = OP_READ
                 /\ rqs'[r].size = n
                 /\ rqs'[r].duration = lastEv'.ts - lastSys[EvTid].ts
                 /\ fdh'[procs[q].fds[f]].iorequests
                        = Append(fdh[procs[q].fds[f]].iorequests, r)]_vars

\* C6: while the last syscall event of a thread is an entry, the thread's
\* in-flight record is non-empty, no IORequest of the thread exists for
\* that entry and no duration sample was added for it.
C6_UnterminatedEntry ==
    \A tid \in Tids :
        (lastSys[tid].kind = "entry" /\ ~failed) =>
            /\ procs[tids[tid]].current_syscall # EmptyDict
            /\ \A r \in 1..Len(rqs) :
                   r > lastSys[tid].nrq => rqs[r].proc # tids[tid]
            /\ Samples(State, tid) = lastSys[tid].samples

\* the aggregate of a line before the step (a missing line counts as zero)
AggOf(d, nr) == IF Has(d, nr) THEN d[nr] ELSE init_irq

\* the last three soft events of CPU c are raise, entry and exit of one vector
RaiseEntryExit(h) ==
    /\ Len(h) = 3
    /\ h[1].kind = "raise" /\ h[2].kind = "entry" /\ h[3].kind = "exit"
    /\ h[1].vec = h[2].vec /\ h[2].vec = h[3].vec

\* C7: when a soft-IRQ raise of vector v at time r, the entry of v at time s
\* and its exit at time e are read one after the other on a CPU (no filter
\* set), the exit adds to the aggregate of soft line v exactly: count + 1,
\* total + (e - s), raise_count + 1, raise_total + (s - r).
C7_RaiseEntryExitGain ==
    [][\A c \in CpuIds :
         (/\ Reads("soft_exit") /\ lastEv'.cpu_id = c
          /\ args = NoFilter
          /\ RaiseEntryExit(softHist'[c]))
         => LET h == softHist'[c]
                v == h[1].vec
                old == AggOf(irq.soft_irqs, v)
            IN  /\ Has(irq'.soft_irqs, v)
                /\ irq'.soft_irqs[v].count = old.count + 1
                /\ irq'.soft_irqs[v].total = old.total + (h[3].ts - h[2].ts)
                /\ irq'.soft_irqs[v].raise_count = old.raise_count + 1
                /\ irq'.soft_irqs[v].raise_total =
                       old.raise_total + (h[2].ts - h[1].ts)]_vars

\* C7 witness: raise, entry and exit at three different times were read and
\* the line holds the raise latency and the duration of that interval
C7_Witness ==
    \E c \in CpuIds :
        /\ lastEv.kind = "soft_exit" /\ lastEv.cpu_id = c
        /\ RaiseEntryExit(softHist[c])
        /\ softHist[c][1].ts < softHist[c][2].ts
        /\ softHist[c][2].ts < softHist[c][3].ts
        /\ Has(irq.soft_irqs, lastEv.nr)
        /\ irq.soft_irqs[lastEv.nr].raise_total = NsPerUs
        /\ irq.soft_irqs[lastEv.nr].total = NsPerUs

\* the soft IRQ objects
SoftIds == {id \in 1..Len(irqHeap) : irqHeap[id].irqclass = SOFT_IRQ}

\* C8: a soft-IRQ entry for vector v on CPU c is marked with a raise
\* timestamp if and only if a raise of v was read on c before it with no
\* entry of v on c in between, whatever raises of other vectors came between.
C8_RaiseMarkedIff ==
    \A id \in SoftIds : (irqHeap[id].raise_ts # -1) <=> (expRaise[id] # -1)

\* the in-flight slot of the class of the exit event read by this step
SlotKey(kind) == IF kind = "hard_exit" THEN "hard_per_cpu" ELSE "soft_per_cpu"

SlotEmpty(I, key, c) == ~Has(I[key], c) \/ I[key][c] = None

\* C9: an interrupt exit (hard or soft) whose number differs from the number
\* in the CPU's in-flight slot of that class clears the slot and records
\* nothing; an exit on a CPU whose slot is empty changes nothing.
C9_MismatchedExitDiscarded ==
    [][\A kind \in {"hard_exit", "soft_exit"} :
         Reads(kind) =>
           LET key == SlotKey(kind)
               c == lastEv'.cpu_id
           IN  /\ SlotEmpty(irq, key, c) => irq' = irq /\ irqHeap' = irqHeap
               /\ (~SlotEmpty(irq, key, c)
                      /\ irqHeap[irq[key][c]].nr # lastEv'.nr)
                  => /\ irq' = [irq EXCEPT ![key] = Put(@, c, None)]
                     /\ irqHeap' = irqHeap]_vars

\* C9 witness: a mismatched exit was read on a CPU that had an interrupt in
\* flight, and the slot is now cleared
C9_Witness ==
    /\ lastEv.kind \in {"hard_exit", "soft_exit"}
    /\ Has(irq[SlotKey(lastEv.kind)], lastEv.cpu_id)
    /\ irq[SlotKey(lastEv.kind)][lastEv.cpu_id] = None
    /\ irq.irq_list = <<>>

\* C10: each interrupt entry yields at most one recorded interval: once its
\* matching exit has been read the slot is idle, and a second exit with the
\* same number and no entry in between records no sample, so that no IRQ
\* object is in the list of recorded intervals twice.
C10_OneIntervalPerEntry ==
    \A j, k \in 1..Len(irq.irq_list) :
        irq.irq_list[j] = irq.irq_list[k] => j = k

\* C11: with a min or max duration filter set, a matching interrupt exit
\* whose duration is outside the range records no sample in any aggregate
\* or list, and the CPU's in-flight slot of that class is cleared.
C11_FilteredExitClearsSlot ==
    [][\A kind \in {"hard_exit", "soft_exit"} :
         LET key == SlotKey(kind)
             agg == IF kind = "hard_exit" THEN "hard_irqs" ELSE "soft_irqs"
             c == lastEv'.cpu_id
         IN  (/\ Reads(kind)
              /\ ~SlotEmpty(irq, key, c)
              /\ irqHeap[irq[key][c]].nr = lastEv'.nr
              /\ FilteredOut(args, lastEv'.ts - irqHeap[irq[key][c]].start_ts))
             => /\ irq'.irq_list = irq.irq_list
                /\ AggOf(irq'[agg], lastEv'.nr) = AggOf(irq[agg], lastEv'.nr)
                /\ SlotEmpty(irq', key, c)]_vars

(***************************************************************************)
(* Properties of the statedump merge                                       *)
(***************************************************************************)
\* the step reads a process-state record that names a thread of another
\* process
ReadsDump ==
    /\ Reads("lttng_statedump_process_state")
    /\ sysEv'.pid # sysEv'.tid

\* C12: the same process-state record (tid, pid # tid) read a second time,
\* immediately after the first, leaves the open and closed descriptor tables
\* of every process and the counters of every descriptor as they were after
\* the first, and does not fail.
C12_MergeIdempotent ==
    [][(/\ ReadsDump
        /\ dumped >= 1
        /\ sysEv.tid = sysEv'.tid
        /\ sysEv.pid = sysEv'.pid
        /\ sysEv.comm = sysEv'.comm)
       => /\ ~failed'
          /\ tids' = tids
          /\ procs' = procs
          /\ fdh' = fdh]_vars

\* the record was read twice in a row, the first one moved a descriptor of
\* thread 1 to process 2
C12_Witness ==
    /\ dumped >= 2
    /\ ~failed
    /\ Has(tids, 1) /\ Has(tids, 2)
    /\ procs[tids[1]].fds = EmptyDict
    /\ Has(procs[tids[2]].fds, 0)
    /\ fdh[procs[tids[2]].fds[0]].filename # "/tmp/a"

\* the open table of a thread before the step, empty for an unknown thread
FdsOf(tid) == IF Has(tids, tid) THEN procs[tids[tid]].fds ELSE EmptyDict

\* C13: after a process-state record with pid # tid the open table of the
\* child is empty, every fd that was open in the child is in the open table
\* of the parent, and an fd that was not in the parent before is the child's
\* descriptor itself, with its counters unchanged.
C13_ChildTableMoved ==
    [][ReadsDump =>
         LET child == FdsOf(sysEv'.tid)
             before == FdsOf(sysEv'.pid)
             parent == procs'[tids'[sysEv'.pid]].fds
         IN  /\ procs'[tids'[sysEv'.tid]].fds = EmptyDict
             /\ \A fd \in DOMAIN child :
                   /\ Has(parent, fd)
                   /\ ~Has(before, fd) =>
                        /\ parent[fd] = child[fd]
                        /\ fdh'[parent[fd]] = fdh[child[fd]]]_vars

\* the record has moved descriptor 0 of thread 1 to process 2
C13_Witness ==
    /\ dumped = 1
    /\ ~failed
    /\ procs[tids[1]].fds = EmptyDict
    /\ Has(procs[tids[2]].fds, 0)
    /\ fdh[procs[tids[2]].fds[0]].filename = "unknown (origin not found)"

\* the byte counters of a descriptor
ByteCounters ==
    {"net_read", "net_write", "disk_read", "disk_write",
     "unk_read", "unk_write", "read", "write"}

\* C14: when the merge finds the same fd open in the child and in the
\* parent, the descriptor of the parent keeps its non-empty filename and
\* each of its byte counters becomes the sum of both previous values.
C14_CollisionSumsCounters ==
    [][ReadsDump =>
         LET child == FdsOf(sysEv'.tid)
             before == FdsOf(sysEv'.pid)
         IN  \A fd \in DOMAIN child \cap DOMAIN before :
               LET x == fdh[child[fd]]
                   y == fdh[before[fd]]
                   z == fdh'[procs'[tids'[sysEv'.pid]].fds[fd]]
               IN  /\ y.filename # "" => z.filename = y.filename
                   /\ \A k \in ByteCounters : z[k] = x[k] + y[k]]_vars

\* the closed table of a thread before the step
ClosedOf(tid) ==
    IF Has(tids, tid) THEN procs[tids[tid]].closed_fds ELSE EmptyDict

\* C15: a process-state record with pid # tid for a child that has closed
\* descriptors completes, empties the closed table of the child and leaves
\* each of its filenames in the closed table of the parent; on a collision
\* open, close, read and write of the entry of the parent are the sums of
\* both previous values.
C15_ClosedTableMerged ==
    [][(ReadsDump /\ ClosedOf(sysEv'.tid) # EmptyDict) =>
         LET child == ClosedOf(sysEv'.tid)
             before == ClosedOf(sysEv'.pid)
             parent == procs'[tids'[sysEv'.pid]].closed_fds
         IN  /\ ~failed'
             /\ procs'[tids'[sysEv'.tid]].closed_fds = EmptyDict
             /\ \A n \in DOMAIN child :
                   /\ Has(parent, n)
                   /\ Has(before, n) =>
                        \A k \in {"open", "close", "read", "write"} :
                           fdh'[parent[n]][k] =
                               fdh[child[n]][k] + fdh[before[n]][k]]_vars

(***************************************************************************)
(* Properties of reset()                                                   *)
(***************************************************************************)
\* the counters of a process and of a descriptor
ProcessCounters ==
    ByteCounters \cup {"total_syscalls"}

FdCounters ==
    ByteCounters \cup {"open", "close"}

\* every counter of every known process and table descriptor is zero and
\* every interval list is empty
AllZero(S) ==
    /\ \A t \in DOMAIN S.tids :
          LET p == S.procs[S.tids[t]]
          IN  /\ \A k \in ProcessCounters : p[k] = 0
              /\ p.iorequests = <<>>
              /\ p.syscalls = EmptyDict
    /\ \A i \in TableFds(S) :
          /\ \A k \in FdCounters : S.fdh[i][k] = 0
          /\ S.fdh[i].iorequests = <<>>

C17_UnknownThreadDropped ==
    [][\A kind \in {"syscall_entry", "syscall_exit",
                     "mm_vmscan_wakeup_kswapd"} :
         (Reads(kind) /\ UnknownCpu(State, lastEv'.cpu_id))
         => UNCHANGED sysVars]_vars

\* such an event was read on a CPU in the table whose thread is not known,
\* while a process with an open descriptor exists
C17_Witness ==
    /\ lastEv.kind \in {"syscall_entry", "syscall_exit",
                         "mm_vmscan_wakeup_kswapd"}
    /\ Has(cpus, lastEv.cpu_id)
    /\ cpus[lastEv.cpu_id] = None
    /\ ~failed
    /\ \E t \in DOMAIN tids : procs[tids[t]].fds # EmptyDict

\* the Process objects of the thread table
Known == {tids[t] : t \in DOMAIN tids}

\* C18: no FileDescriptor object is in an open table and in a closed table
\* at the same time, none is in the open tables of two processes, and none
\* is in one open table under two fd numbers.
C18_OneTablePerDescriptor ==
    \A p \in Known : \A q \in Known :
       \A k \in DOMAIN procs[p].fds :
          /\ \A n \in DOMAIN procs[q].closed_fds :
                procs[p].fds[k] # procs[q].closed_fds[n]
          /\ \A j \in DOMAIN procs[q].fds :
                procs[p].fds[k] = procs[q].fds[j] => (p = q /\ k = j)

\* the name of the syscall the thread of the event is in, "" if none
CurName ==
    LET cs == procs[tids[EvTid]].current_syscall
    IN  IF Has(cs, "name") THEN cs["name"] ELSE ""

\* C19: the exit of an open-family syscall with a negative return value
\* adds no descriptor to an open table and changes no counter of a
\* descriptor of an open or closed table.
C19_FailedOpenIgnored ==
    [][(/\ ReadsFor("syscall_exit")
        /\ Has(tids, EvTid)
        /\ CurName \in OPEN_SYSCALLS
        /\ sysEv'.ret < 0)
       => /\ \A i \in DOMAIN procs : procs'[i].fds = procs[i].fds
          /\ \A i \in TableFds(State) :
                \A k \in FdCounters : fdh'[i][k] = fdh[i][k]]_vars

\* C20: after a successful dup2(oldfd, newfd) by a process in which oldfd is
\* open, the descriptor open at the returned fd has the filename and the
\* classified type of oldfd; a newfd that was open at the entry of the dup2
\* has left the open table by then.  The exit is taken right after its
\* entry, so that oldfd is open at the exit exactly if it was at the entry.
C20_DupCopiesNameAndType ==
    [][/\ (/\ ReadsFor("syscall_exit")
           /\ Has(tids, EvTid)
           /\ CurName \in DUP2_NAMES
           /\ lastSys[EvTid].kind = "entry"
           /\ lastEv.kind = "syscall_entry"
           /\ lastEv.cpu_id = lastEv'.cpu_id
           /\ Has(procs[Owner(EvTid)].fds, lastSys[EvTid].fd)
           /\ sysEv'.ret >= 0
           /\ sysEv'.ret # lastSys[EvTid].fd)
          => LET o == Owner(EvTid)
                 old == fdh[procs[o].fds[lastSys[EvTid].fd]]
             IN  /\ Has(procs'[o].fds, sysEv'.ret)
                 /\ fdh'[procs'[o].fds[sysEv'.ret]].filename = old.filename
                 /\ fdh'[procs'[o].fds[sysEv'.ret]].fdtype = old.fdtype
       /\ (/\ ReadsFor("syscall_entry")
           /\ Has(tids, EvTid)
           /\ sysEv'.name \in DUP2_NAMES
           /\ Has(procs[Owner(EvTid)].fds, sysEv'.fd2))
          => ~Has(procs'[Owner(EvTid)].fds, sysEv'.fd2)]_vars

(***************************************************************************)
(* Properties of the I/O requests                                          *)
(***************************************************************************)
\* the number of times x is in the list l
Occurrences(l, x) == Cardinality({i \in DOMAIN l : l[i] = x})

\* the step completes a syscall of one of these names with this return
CompletesIo(names) ==
    /\ ReadsFor("syscall_exit")
    /\ Has(tids, EvTid)
    /\ CurName \in names
    /\ ~failed'

\* C21: the I/O request of a completed open, read, write or sync syscall is
\* produced once, and is once in the interval list of its descriptor, when
\* it has one, and once in the interval list of its thread or process.
C21_RequestInBothLists ==
    [][(/\ CompletesIo(OPEN_SYSCALLS \cup READ_SYSCALLS
                         \cup WRITE_SYSCALLS \cup SYNC_SYSCALLS)
        /\ sysEv'.ret >= 0)
       => /\ Len(rqs') = Len(rqs) + 1
          /\ LET r == Len(rqs')
                 th == tids[EvTid]
             IN  /\ rqs'[r].fd # None =>
                      Occurrences(fdh'[rqs'[r].fd].iorequests, r) = 1
                 /\ Occurrences(procs'[th].iorequests, r)
                      + (IF Owner(EvTid) # th
                         THEN Occurrences(procs'[Owner(EvTid)].iorequests, r)
                         ELSE 0) = 1]_vars

(***************************************************************************)
(* Properties of the entity tables                                         *)
(***************************************************************************)
\* C22: once the process table has an entry for an identifier, no event
\* replaces it by another Process object: the identifier keeps naming the
\* object that holds its descriptors, counters and in-flight record.
C22_SingleInstance ==
    [][\A t \in DOMAIN tids : Has(tids', t) /\ tids'[t] = tids[t]]_vars

\* C23: a block-device record completes without error and leaves, under its
\* device id, a Disk whose pretty name is the disk name of the record; a
\* Disk that was there keeps its other fields.
C23_BlockDeviceGetOrCreate ==
    [][Reads("lttng_statedump_block_device") =>
         /\ ~failed'
         /\ Has(disks', sysEv'.dev)
         /\ disks'[sysEv'.dev].prettyname = sysEv'.diskname
         /\ \A d \in DOMAIN disks :
               /\ Has(disks', d)
               /\ [disks'[d] EXCEPT !.prettyname = ""]
                    = [disks[d] EXCEPT !.prettyname = ""]]_vars

\* the filename get_fd gives to a descriptor of unknown origin
Placeholder == "unknown (origin not found)"

\* C24: a file-descriptor record for (pid, fd) leaves the filename of a
\* descriptor that is open with a filename as it is, sets the filename of a
\* new descriptor, changes no byte counter and adds an entry with its
\* timestamp to the chronological history of the fd.
C24_SnapshotFillsUnsetOnly ==
    [][Reads("lttng_statedump_file_descriptor") =>
         LET before == FdsOf(sysEv'.pid)
             fd == sysEv'.fd
             after == procs'[tids'[sysEv'.pid]]
             z == fdh'[after.fds[fd]]
         IN  /\ ~failed'
             /\ Has(after.fds, fd)
             /\ IF Has(before, fd)
                   /\ fdh[before[fd]].filename \notin {"", Placeholder}
                THEN z.filename = fdh[before[fd]].filename
                ELSE z.filename = sysEv'.filename
             /\ \A i \in DOMAIN fdh :
                   \A k \in ByteCounters : fdh'[i][k] = fdh[i][k]
             /\ \A k \in ByteCounters : z[k] =
                   IF Has(before, fd) THEN fdh[before[fd]][k] ELSE 0
             /\ Has(after.chrono_fds, fd)
             /\ Has(after.chrono_fds[fd], sysEv'.timestamp)]_vars

(***************************************************************************)
(* Properties of the run                                                   *)
(***************************************************************************)
\* C25: with an end-time bound, no event with a later timestamp is fed; the
\* first such event stops the consumption and changes nothing, and after it
\* the in-flight records and every statistic stay as they are.
C25_EndBoundStops ==
    [][/\ nev' = nev + 1 => (arg_end = None \/ lastEv'.ts <= arg_end)
       /\ stopped' # stopped => UNCHANGED <<irqVars, sysVars, nev>>
       /\ stopped => UNCHANGED <<irqVars, sysVars, nev>>]_vars

\* the run has stopped with a syscall and an interrupt in flight
C25_Witness ==
    /\ stopped
    /\ arg_end # None
    /\ \E t \in DOMAIN tids : procs[tids[t]].current_syscall # EmptyDict
    /\ ~SlotEmpty(irq, "hard_per_cpu", 0)

(***************************************************************************)
(* Properties of the byte counters                                         *)
(***************************************************************************)
\* the totals of an FD or a Process are the sums of their three classes
Balanced(o) ==
    /\ o.read = o.net_read + o.disk_read + o.unk_read
    /\ o.write = o.net_write + o.disk_write + o.unk_write

\* C26: every Process and every FileDescriptor has read = net_read +
\* disk_read + unk_read and write = net_write + disk_write + unk_write.
C26_TotalsAreSums ==
    /\ \A p \in Known : Balanced(procs[p])
    /\ \A i \in TableFds(State) : Balanced(fdh[i])

\* the sum of the values of a function over the elements of a finite set
RECURSIVE SumOver(_, _)
SumOver(set, f) ==
    IF set = {} THEN 0
    ELSE LET x == CHOOSE y \in set : TRUE
         IN  f[x] + SumOver(set \ {x}, f)

\* the descriptors of a process, open or closed, that carry a filename
Carrying(p, filename) ==
    {i \in {procs[p].fds[k] : k \in DOMAIN procs[p].fds}
            \cup {procs[p].closed_fds[n] : n \in DOMAIN procs[p].closed_fds} :
       fdh[i].filename = filename}

\* the completed reads of a process on descriptors that carry a filename
ReadsOn(p, filename) ==
    {r \in DOMAIN rqs : /\ rqs[r].operation = OP_READ
                         /\ rqs[r].proc # None
                         /\ Owner(procs[rqs[r].proc].tid) = p
                         /\ rqs[r].fd # None
                         /\ fdh[rqs[r].fd].filename = filename}

\* C27: for a process and a file, the disk_read of its open and closed
\* descriptors of that file add up to the bytes that the successful reads
\* on that file have returned: a close or a reopen neither doubles nor
\* drops bytes.
C27_BytesConserved ==
    \A p \in Known :
       LET DiskRead == [i \in DOMAIN fdh |-> fdh[i].disk_read]
           Size == [r \in DOMAIN rqs |-> rqs[r].size]
       IN  SumOver(Carrying(p, "/tmp/a"), DiskRead)
             = SumOver(ReadsOn(p, "/tmp/a"), Size)

(***************************************************************************)
(* Properties of the side channels                                         *)
(***************************************************************************)
\* C28: the I/O request of a completed syscall has its reclaim-wakeup flag
\* set exactly if a reclaim wakeup was processed on the CPU of the thread
\* between the entry and the exit; a wakeup for a thread with no syscall in
\* flight changes nothing.
C28_WakeupFlag ==
    [][/\ (/\ CompletesIo(READ_SYSCALLS \cup WRITE_SYSCALLS
                              \cup SYNC_SYSCALLS)
           /\ lastSys[EvTid].kind = "entry"
           /\ Len(rqs') = Len(rqs) + 1)
          => rqs'[Len(rqs')].woke_kswapd = lastSys[EvTid].woken
       /\ (/\ ReadsFor("mm_vmscan_wakeup_kswapd")
           /\ Has(tids, EvTid)
           /\ procs[tids[EvTid]].current_syscall = EmptyDict)
          => UNCHANGED sysVars]_vars

\* the Process whose record gets the credit of a page freed while the
\* thread of CPU c runs: the previous thread, when the reclaim worker runs
PageFreeTarget(c) ==
    LET p0 == tids[cpus[c]]
    IN  IF procs[p0].comm = "kswapd0" /\ procs[p0].prev_tid > 0
        THEN tids[procs[p0].prev_tid]
        ELSE p0

\* the page-free count of an in-flight record
PageFree(cs) == IF Has(cs, "page_free") THEN cs["page_free"] ELSE 0

\* C29: a page-free event adds one to the page-free count of the record of
\* the current thread of each CPU, or of its previous thread when the
\* current one is the reclaim worker, if that record carries the
\* reclaim-wakeup mark; at the exit the count becomes page_free of the
\* I/O request.
C29_PageFreeCredit ==
    [][/\ Reads("mm_page_free") =>
            \A c \in DOMAIN cpus :
               (/\ cpus[c] # None
                /\ Has(procs[PageFreeTarget(c)].current_syscall,
                       "wakeup_kswapd"))
               => PageFree(procs'[PageFreeTarget(c)].current_syscall)
                    = PageFree(procs[PageFreeTarget(c)].current_syscall) + 1
       /\ (/\ CompletesIo(READ_SYSCALLS \cup WRITE_SYSCALLS
                              \cup SYNC_SYSCALLS)
           /\ Len(rqs') = Len(rqs) + 1)
          => rqs'[Len(rqs')].page_free
               = PageFree(procs[tids[EvTid]].current_syscall)]_vars

\* C30: every I/O request in the interval list of a descriptor or of a
\* process has an operation among open, read, write and sync.
C30_RequestHasOperation ==
    LET Ops == {OP_OPEN, OP_READ, OP_WRITE, OP_SYNC}
    IN  /\ \A i \in DOMAIN fdh :
              \A k \in DOMAIN fdh[i].iorequests :
                 rqs[fdh[i].iorequests[k]].operation \in Ops
        /\ \A p \in DOMAIN procs :
              \A k \in DOMAIN procs[p].iorequests :
                 rqs[procs[p].iorequests[k]].operation \in Ops

(***************************************************************************)
(* Properties of the descriptors an open creates                           *)
(***************************************************************************)
\* the step reads the successful exit of the open, socket or accept whose
\* entry is the previous event of the stream (sysEv is that entry)
OpenReturns ==
    /\ ReadsFor("syscall_exit")
    /\ Has(tids, EvTid)
    /\ lastSys[EvTid].kind = "entry"
    /\ lastEv.kind = "syscall_entry"
    /\ lastEv.cpu_id = lastEv'.cpu_id
    /\ sysEv.name \in DISK_OPEN_SYSCALLS \cup NET_OPEN_SYSCALLS
    /\ sysEv'.ret >= 0

\* the name and the type the entry event of an open gives its descriptor
NameOfOpen(ev) ==
    IF ev.name \in DISK_OPEN_SYSCALLS THEN ev.filename
    ELSE IF ev.name \in ACCEPT_NAMES /\ ev.family = AF_INET
    THEN IpPort(ev.addr, ev.port)
    ELSE "socket"

TypeOfOpen(ev) ==
    IF ev.name \in DISK_OPEN_SYSCALLS THEN FDType_disk
    ELSE IF ev.family \in {AF_INET, AF_INET6} THEN FDType_net
    ELSE IF ev.family = AF_UNIX THEN FDType_disk
    ELSE FDType_unknown

\* C31: the descriptor a successful open, openat, socket or accept leaves at
\* the returned fd of the owning process has the name and the type of its
\* syscall family: the filename and disk for open/openat; "address:port" for
\* an IPv4 accept and "socket" for the other accepts and sockets; net for an
\* INET family, disk for UNIX, unknown for no or any other family.
C31_OpenNamesAndClassifies ==
    [][OpenReturns =>
         LET o == Owner(EvTid)
         IN  /\ Has(procs'[o].fds, sysEv'.ret)
             /\ fdh'[procs'[o].fds[sysEv'.ret]].filename = NameOfOpen(sysEv)
             /\ fdh'[procs'[o].fds[sysEv'.ret]].fdtype = TypeOfOpen(sysEv)]_vars

\* C33: the successful open of a thread whose pid is known and is not its
\* tid puts the descriptor in the open table of the process leader only:
\* the open table of the thread itself is left as it was, and the
\* descriptor of the leader's table has the type classified at the entry.
C33_ThreadOpenInLeaderTable ==
    [][(OpenReturns /\ Owner(EvTid) # tids[EvTid]) =>
         LET o == Owner(EvTid)
             th == tids[EvTid]
         IN  /\ Has(procs'[o].fds, sysEv'.ret)
             /\ procs'[th].fds = procs[th].fds
             /\ fdh'[procs'[o].fds[sysEv'.ret]].fdtype =
                   procs[th].current_syscall["fdtype"]]_vars

(***************************************************************************)
(* Properties of the reporting windows                                     *)
(***************************************************************************)
\* the timestamp a window that ends with the i-th refresh begins at: the
\* end of the refresh before, or the first event the loop has processed
WindowStart(i) == IF i = 1 THEN taken[1] ELSE calls[i - 1].end

\* C32: with a refresh period R > 0, every call of the refresh callback is
\* made at least R seconds of trace time after the previous call (or the
\* first event), its begin is the end of the previous call (or the
\* timestamp of the first event processed), and the event it is made at is
\* fed after it: the events fed before the call are the ones before that
\* event.  With R = 0 there is no call.
C32_RefreshWindowsPartition ==
    /\ arg_refresh = 0 => calls = <<>>
    /\ \A i \in DOMAIN calls :
          /\ calls[i].end - WindowStart(i) >= arg_refresh * NSEC_PER_SEC
          /\ calls[i].begin = WindowStart(i)
          /\ calls[i].fed < Len(taken)
          /\ taken[calls[i].fed + 1] = calls[i].end

(***************************************************************************)
(* Properties of the syscall tallies                                       *)
(***************************************************************************)
\* the global tally and the tallies of the threads agree
TallyConsistent(S) ==
    LET names == DOMAIN S.syscalls \ {"total"}
        known == {S.tids[t] : t \in DOMAIN S.tids}
        totals == [p \in known |-> S.procs[p].total_syscalls]
    IN  /\ S.syscalls["total"] = SumOver(names, S.syscalls)
        /\ S.syscalls["total"] = SumOver(known, totals)
        /\ \A p \in known :
              LET sc == S.procs[p].syscalls
              IN  S.procs[p].total_syscalls =
                     SumOver(DOMAIN sc, [n \in DOMAIN sc |-> sc[n].count])

\* C34: after every event the global total is the sum of the global counts
\* per name and the sum of total_syscalls over the threads of the thread
\* table, the total_syscalls of every thread is the sum of its counts per
\* name, and a syscall entry on a CPU whose current thread is known adds
\* one to the global total, whatever its name.
C34_TallyConsistent ==
    [][/\ TallyConsistent(State)'
       /\ (ReadsFor("syscall_entry") /\ Has(tids, EvTid))
             => syscalls'["total"] = syscalls["total"] + 1]_vars

(***************************************************************************)
(* Properties of the interrupt aggregates                                  *)
(***************************************************************************)
\* the sum of the durations of the IRQ objects of a list
RECURSIVE Durations(_)
Durations(l) ==
    IF l = <<>> THEN 0
    ELSE (irqHeap[Head(l)].stop_ts - irqHeap[Head(l)].start_ts)
            + Durations(Tail(l))

\* the aggregate of a line agrees with its list of intervals
AggregateSound(a) ==
    /\ a.count = Len(a.list)
    /\ a.total = Durations(a.list)
    /\ a.raise_count <= a.count
    /\ a.count >= 1 =>
          /\ a.min <= a.max
          /\ a.min * a.count <= a.total
          /\ a.total <= a.max * a.count

\* the aggregates of the hard lines and of the soft lines, as one function
LineCounts ==
    [k \in ({"hard"} \X DOMAIN irq.hard_irqs)
              \cup ({"soft"} \X DOMAIN irq.soft_irqs) |->
        IF k[1] = "hard" THEN irq.hard_irqs[k[2]].count
        ELSE irq.soft_irqs[k[2]].count]

\* C35: for every hard and soft line, count is the length of the list of
\* intervals, total is the sum of the durations of the list, min <= max and
\* min * count <= total <= max * count when count >= 1, and raise_count <=
\* count; the global list is as long as the sum of count over the lines.
C35_AggregatesMatchLists ==
    /\ \A n \in DOMAIN irq.hard_irqs : AggregateSound(irq.hard_irqs[n])
    /\ \A v \in DOMAIN irq.soft_irqs : AggregateSound(irq.soft_irqs[v])
    /\ Len(irq.irq_list) = SumOver(DOMAIN LineCounts, LineCounts)

(***************************************************************************)
(* Properties of the two interrupt state machines                          *)
(***************************************************************************)
\* the IRQ objects of a class
IdsOf(H, irqclass) == {id \in 1..Len(H) : H[id].irqclass = irqclass}

\* a per-CPU table of IRQ objects and the objects in it are as they were
SlotsKept(key) ==
    /\ irq'[key] = irq[key]
    /\ \A c \in DOMAIN irq[key] :
          irq[key][c] # None => irqHeap'[irq[key][c]] = irqHeap[irq[key][c]]

\* the slots of a CPU, with the IRQ objects in them
SlotsOf(I, H, c) ==
    [key \in {"hard_per_cpu", "soft_per_cpu", "raise_per_cpu"} |->
        IF ~Has(I[key], c) THEN <<"absent">>
        ELSE IF key = "raise_per_cpu" \/ I[key][c] = None
        THEN <<"set", I[key][c]>>
        ELSE <<"set", I[key][c], H[I[key][c]]>>]

\* C36: a hard-IRQ entry or exit changes no soft in-flight slot, no pending
\* raise and no soft aggregate; a soft-IRQ raise, entry or exit changes no
\* hard in-flight slot and no hard aggregate; an event on a CPU changes no
\* in-flight slot and no pending raise of another CPU.
C36_HardSoftPerCpuFrame ==
    [][/\ (Reads("hard_entry") \/ Reads("hard_exit"))
             => /\ SlotsKept("soft_per_cpu")
                /\ irq'.raise_per_cpu = irq.raise_per_cpu
                /\ irq'.soft_irqs = irq.soft_irqs
                /\ \A id \in IdsOf(irqHeap, SOFT_IRQ) :
                      irqHeap'[id] = irqHeap[id]
       /\ (Reads("soft_raise") \/ Reads("soft_entry") \/ Reads("soft_exit"))
             => /\ SlotsKept("hard_per_cpu")
                /\ irq'.hard_irqs = irq.hard_irqs
                /\ \A id \in IdsOf(irqHeap, HARD_IRQ) :
                      irqHeap'[id] = irqHeap[id]
       /\ \A c \in CpuIds :
             (nev' = nev + 1 /\ lastEv'.cpu_id # c)
                => SlotsOf(irq', irqHeap', c) = SlotsOf(irq, irqHeap, c)]_vars

\* a hard exit has recorded an interval while a soft interrupt was in
\* flight on the other CPU
C36_Witness ==
    /\ lastEv.kind = "hard_exit"
    /\ irq.hard_irqs # EmptyDict
    /\ \E c \in CpuIds :
          c # lastEv.cpu_id /\ ~SlotEmpty(irq, "soft_per_cpu", c)

(***************************************************************************)
(* Properties of the duration samples                                      *)
(***************************************************************************)
\* no syscall name of a thread has more samples than counted entries
SamplesWithinCount(S) ==
    \A t \in DOMAIN S.tids :
       LET sc == S.procs[S.tids[t]].syscalls
       IN  \A n \in DOMAIN sc : Len(sc[n].rq) <= sc[n].count

\* the samples the step adds to the syscall names of the thread of the event
NewSamples ==
    LET old == procs[tids[EvTid]].syscalls
        new == procs'[tids[EvTid]].syscalls
    IN  UNION {{new[n].rq[k] :
                   k \in {j \in DOMAIN new[n].rq :
                             ~Has(old, n) \/ j > Len(old[n].rq)}} :
               n \in DOMAIN new}

\* C37: a syscall name of a thread never has more duration samples than
\* counted entries, and a sample that an exit adds closes the entry that is
\* the thread's last syscall event (an entry closed before gives no second
\* sample): it runs from the timestamp of that entry to the one of the exit.
C37_SamplePerEntry ==
    [][/\ SamplesWithinCount(State)'
       /\ (ReadsFor("syscall_exit") /\ Has(tids, EvTid) /\ ~failed')
             => \A s \in NewSamples :
                   /\ lastSys[EvTid].kind = "entry"
                   /\ s.entry_ts = lastSys[EvTid].ts
                   /\ s.exit_ts = lastEv'.ts
                   /\ s.duration = s.exit_ts - s.entry_ts]_vars

(***************************************************************************)
(* Properties of the list of pending syscalls                              *)
(***************************************************************************)
\* the in-flight record of the thread holds a read, write or sync syscall
\* that has not exited
Unterminated(tid) ==
    LET cs == procs[tids[tid]].current_syscall
    IN  /\ lastSys[tid].kind = "entry"
        /\ Has(cs, "name")
        /\ cs["name"] \in READ_SYSCALLS \cup WRITE_SYSCALLS \cup SYNC_SYSCALLS

\* C38: a thread is in pending_syscalls if and only if its in-flight record
\* holds a read, write or sync syscall that has not exited; so a thread
\* whose exit has been processed is not in the list, also when a second
\* entry had orphaned an entry of the thread before.
C38_PendingIsUnterminated ==
    ~failed =>
       \A tid \in DOMAIN tids :
          (Occurrences(pending_syscalls, tids[tid]) > 0) <=> Unterminated(tid)

(***************************************************************************)
(* Properties of the syscall latency statistics                            *)
(***************************************************************************)
\* the IORequests of an operation that the provider has produced
Produced(op) ==
    {r \in 1..Len(rqs) :
        /\ rqs[r].iotype = IO_SYSCALL
        /\ rqs[r].operation = op
        /\ rqs[r].end # None
        /\ ~OutOfRange(rqs[r])}

\* C39: the statistics computed over all processes count every IORequest
\* of an open, read, write or sync exactly once, in the category of its
\* operation: the count of a category is the number of the IORequests of
\* that operation produced, whatever was opened, closed and reopened.
C39_RequestCountedOnce ==
    ~failed =>
       \A op \in StatOps :
          compute_syscalls_latency_stats(State)[op].count
             = Cardinality(Produced(op))
==============================================================================
